---- MODULE Spec2Model ----
(***************************************************************************)
(* A model of the core of baileyherbert/bancho:                            *)
(*   - Store            (src/src/core/bot.ts, class Store)                 *)
(*   - EventManager     (src/src/core/bot/managers/eventManager.ts)        *)
(*   - TaskManager      (src/src/core/bot/managers/taskManager.ts)         *)
(* Each subsystem has its own next-state relation and specification; the   *)
(* variables of the other subsystems are left unchanged.                   *)
(***************************************************************************)
EXTENDS Integers, Sequences, FiniteSets, Bags, TLC

(***************************************************************************)
(* Bounds of the model.                                                    *)
(***************************************************************************)
\* write()/save() calls made on the store over the whole run
MaxCalls == 3
\* process crashes (each followed by a fresh construction of the store)
MaxCrashes == 1
\* uses of the plain `value = v` setter
MaxSets == 1
\* EventManager.invoke calls
MaxInvokes == 1
\* EventManager.flush calls, the one made by Bot.start included
MaxFlushes == 2
\* steps of the clock of the task manager
MaxTicks == 5
\* task callbacks that run on after their timeout, at any one time
MaxBackground == 1
\* failures a task was found with by the process that is modelled
MaxFailures == 16
\* setResult and setError calls on one PromiseCompletionSource
MaxSettles == 3
\* cancel() calls on one PromiseTimeoutSource
MaxCancels == 2
\* Bot.createStore and Bot.createStoreAsync calls with the one name
MaxLookups == 5

(***************************************************************************)
(* JSON values and their text.  A value is a number or a flat array of     *)
(* numbers; a text is a sequence of one-character strings.                 *)
(***************************************************************************)
Num(n) == [k |-> "num", n |-> n, a |-> <<>>]

Arr(a) == [k |-> "arr", n |-> 0, a |-> a]

\* the values the callers of the store write
Values == {Num(12), Arr(<<>>), Arr(<<1>>)}

\* bot.createStore('bancho/tasks', [])
Defaults == Arr(<<>>)

\* the default of a store created without one
Undefined == [k |-> "undefined", n |-> 0, a |-> <<>>]

DigitChars == <<"0", "1", "2", "3", "4", "5", "6", "7", "8", "9">>

Whitespace == {" ", "\n", "\t", "\r"}

RECURSIVE NumToChars(_)
NumToChars(n) ==
    IF n < 10 THEN <<DigitChars[n + 1]>>
    ELSE NumToChars(n \div 10) \o <<DigitChars[(n % 10) + 1]>>

RECURSIVE JoinItems(_)
\* the items of a non-empty array, each on its own tab-indented line
JoinItems(a) ==
    IF Len(a) = 1 THEN <<"\t">> \o NumToChars(a[1])
    ELSE <<"\t">> \o NumToChars(a[1]) \o <<",", "\n">> \o JoinItems(Tail(a))

\* JSON.stringify(v, null, '\t')
Stringify(v) ==
    IF v.k = "num" THEN NumToChars(v.n)
    ELSE IF Len(v.a) = 0 THEN <<"[", "]">>
    ELSE <<"[", "\n">> \o JoinItems(v.a) \o <<"\n", "]">>

IsDigit(c) == \E d \in 1..10 : DigitChars[d] = c

DigitVal(c) == (CHOOSE d \in 1..10 : DigitChars[d] = c) - 1

RECURSIVE Strip(_)
\* the text without its leading and trailing whitespace
Strip(s) ==
    IF Len(s) = 0 THEN s
    ELSE IF s[1] \in Whitespace THEN Strip(Tail(s))
    ELSE IF s[Len(s)] \in Whitespace THEN Strip(SubSeq(s, 1, Len(s) - 1))
    ELSE s

\* a JSON number of this grammar: digits, no leading zero
IsNumText(s) ==
    /\ Len(s) > 0
    /\ \A i \in 1..Len(s) : IsDigit(s[i])
    /\ (Len(s) > 1 => s[1] # "0")

RECURSIVE CharsToNum(_)
CharsToNum(s) ==
    IF Len(s) = 0 THEN 0
    ELSE CharsToNum(SubSeq(s, 1, Len(s) - 1)) * 10 + DigitVal(s[Len(s)])

RECURSIVE SplitComma(_)
\* the texts between the commas of s
SplitComma(s) ==
    IF \A i \in 1..Len(s) : s[i] # ","
    THEN <<s>>
    ELSE LET p == CHOOSE i \in 1..Len(s) :
                      s[i] = "," /\ \A j \in 1..(i - 1) : s[j] # ","
         IN <<SubSeq(s, 1, p - 1)>> \o SplitComma(SubSeq(s, p + 1, Len(s)))

ParseFailure == [success |-> FALSE, data |-> Num(0)]

\* Store._parseJsonData: JSON.parse with its exception turned into a flag
ParseJsonData(content) ==
    LET t == Strip(content) IN
    IF IsNumText(t) THEN [success |-> TRUE, data |-> Num(CharsToNum(t))]
    ELSE IF Len(t) >= 2 /\ t[1] = "[" /\ t[Len(t)] = "]"
    THEN LET inner == Strip(SubSeq(t, 2, Len(t) - 1)) IN
         IF Len(inner) = 0 THEN [success |-> TRUE, data |-> Arr(<<>>)]
         ELSE LET parts == SplitComma(inner) IN
              IF \A i \in 1..Len(parts) : IsNumText(Strip(parts[i]))
              THEN [success |-> TRUE,
                    data |-> Arr([i \in 1..Len(parts) |-> CharsToNum(Strip(parts[i]))])]
              ELSE ParseFailure
    ELSE ParseFailure

(***************************************************************************)
(* Files.                                                                  *)
(***************************************************************************)
Absent == [exists |-> FALSE, content |-> <<>>]

File(content) == [exists |-> TRUE, content |-> content]

VARIABLES
    \* ---- Store: the process
    alive,                    \* FALSE between a crash and the next construction
    cache,                    \* Store.cache
    writePromiseSource,       \* Store._writePromiseSource (0: undefined, else a promise id)
    pendingWritePromiseSource,\* Store._pendingWritePromiseSource
    promises,                 \* the promises created by save(), "pending" or "resolved"
    writes,                   \* the invocations of Store._write, each with its position
    \* ---- Store: the disk
    primaryFile,              \* <name>.json
    journalFile,              \* <name>.json-journal
    \* ---- Store: history
    calls,                    \* the number of write()/save() calls so far
    returned,                 \* the promise each write()/save() call of this process returned
    written,                  \* the last of these calls: save() or write(value)
    started,                  \* the number of invocations of _write started so far
    lastFinished,             \* the last invocation of _write that ran to its end
    sets,                     \* uses of the setter so far
    crashes,                  \* crashes so far
    committed,                \* the value of the last write whose primary write completed
    ioFailed,                 \* an I/O error was raised at some point
    setSinceSave,             \* the setter was used after the last write()/save() call
    lastLoad,                 \* what the last construction after a crash found and loaded
    defaults                  \* Store.defaults

storeVars == <<alive, cache, writePromiseSource, pendingWritePromiseSource, promises,
               writes, primaryFile, journalFile, calls, returned, written, started,
               lastFinished, sets, crashes, committed, ioFailed, setSinceSave, lastLoad,
               defaults>>

VARIABLES
    \* ---- EventManager
    status,                   \* Bot._status
    handlers,                 \* EventManager._handlers: event name -> handlers, in insertion order
    queue,                    \* EventManager._queue, in insertion order
    invocations,              \* the invoke() calls whose handlers are still running
    invokes,                  \* the number of invoke() calls made by callers so far
    flushes,                  \* the number of flush() calls so far
    logged,                   \* the number of 'Uncaught error in ... event handler' lines
    lastInvoke,               \* the promise of the last invoke() call of a caller
    lastCalled                \* the handlers that call has called, in order

eventVars == <<status, handlers, queue, invocations, invokes, flushes, logged, lastInvoke, lastCalled>>


(***************************************************************************)
(* Store: construction (load).                                             *)
(***************************************************************************)
\* Store._restoreFromJournal: the disk after it, as <<primary, journal>>
\* a recovery that throws the journal away without reading it
RestoreFromJournalDropsJournal(primary, journal) ==
    IF journal.exists THEN <<primary, Absent>> ELSE <<primary, journal>>

RestoreFromJournal(primary, journal) ==
    IF journal.exists
    THEN IF ParseJsonData(journal.content).success
         THEN <<File(journal.content), Absent>>
         ELSE <<primary, Absent>>
    ELSE <<primary, journal>>

\* a constructor that also replaces a primary file it cannot parse
CreateDefaultFileOverCorrupt(primary) ==
    IF defaults # Undefined
       /\ (~primary.exists \/ ~ParseJsonData(primary.content).success)
    THEN File(Stringify(defaults))
    ELSE primary

\* the text the default creation writes to the journal: the whole of the data
DefaultJournalText(data) == data

\* constructor: "Create the default file if it doesn't exist"
CreateDefaultFile(primary) ==
    IF ~primary.exists /\ defaults # Undefined THEN File(Stringify(defaults)) ELSE primary

\* constructor: "Load the value of the store"
LoadValue(primary) ==
    IF primary.exists /\ ParseJsonData(primary.content).success
    THEN ParseJsonData(primary.content).data
    ELSE defaults

\* before the first call of a process
NoCall == [op |-> "none", value |-> Defaults]

NoLoad == [afterCrash |-> FALSE, journalCorrupt |-> FALSE, primaryFound |-> Absent,
           committedBefore |-> Defaults, allowed |-> {}, value |-> Defaults,
           journalFound |-> Absent, primaryLeft |-> Absent, journalLeft |-> Absent,
           async |-> FALSE, pc |-> "none", content |-> <<>>]

\* the values a crash may leave to be loaded: the last committed one and the ones
\* being saved
ActiveValues == {writes[i].value : i \in 1..Len(writes)}

\* no invocation of _write has finished yet
NoneFinished == [any |-> FALSE, failed |-> FALSE, sawCalls |-> 0, promise |-> 0,
                 startedNext |-> FALSE]

InitStore ==
    /\ alive = TRUE
    /\ cache = Defaults
    /\ writePromiseSource = 0
    /\ pendingWritePromiseSource = 0
    /\ promises = <<>>
    /\ writes = <<>>
    /\ primaryFile = File(Stringify(Defaults))
    /\ journalFile = Absent
    /\ calls = 0
    /\ returned = <<>>
    /\ written = NoCall
    /\ started = 0
    /\ lastFinished = NoneFinished
    /\ sets = 0
    /\ crashes = 0
    /\ committed = Defaults
    /\ ioFailed = FALSE
    /\ setSinceSave = FALSE
    /\ lastLoad = NoLoad
    /\ defaults = Defaults

\* the process dies; everything in memory is lost
Crash ==
    /\ alive
    /\ crashes < MaxCrashes
    /\ alive' = FALSE
    /\ crashes' = crashes + 1
    /\ lastLoad' = [NoLoad EXCEPT !.allowed = {committed} \cup ActiveValues]
    /\ cache' = Defaults
    /\ writePromiseSource' = 0
    /\ pendingWritePromiseSource' = 0
    /\ promises' = <<>>
    /\ writes' = <<>>
    /\ returned' = <<>>
    /\ written' = NoCall
    /\ lastFinished' = NoneFinished
    /\ UNCHANGED <<primaryFile, journalFile, calls, started, sets, committed, ioFailed,
                   setSinceSave>>

\* new Store(bot, storageDir, name, defaults) in the next process
Construct ==
    /\ ~alive
    /\ lastLoad.pc = "none"
    /\ LET restored == RestoreFromJournal(primaryFile, journalFile)
           primary == CreateDefaultFile(restored[1])
       IN /\ primaryFile' = primary
          /\ journalFile' = restored[2]
          /\ cache' = LoadValue(primary)
          /\ committed' = LoadValue(primary)
          /\ lastLoad' = [afterCrash |-> TRUE,
                          journalCorrupt |-> journalFile.exists
                              /\ ~ParseJsonData(journalFile.content).success,
                          primaryFound |-> primaryFile,
                          committedBefore |-> committed,
                          allowed |-> lastLoad.allowed,
                          value |-> LoadValue(primary),
                          journalFound |-> journalFile,
                          primaryLeft |-> primary,
                          journalLeft |-> restored[2],
                          async |-> FALSE, pc |-> "none", content |-> <<>>]
    /\ alive' = TRUE
    /\ setSinceSave' = FALSE
    /\ UNCHANGED <<writePromiseSource, pendingWritePromiseSource, promises, writes,
                   calls, returned, written, started, lastFinished, sets, crashes, ioFailed>>

\* Store.createAsync in the next process, up to the first await of
\* _restoreFromJournalAsync: is there a journal?
CreateAsync ==
    /\ ~alive
    /\ lastLoad.pc = "none"
    /\ lastLoad' = [lastLoad EXCEPT !.pc = IF journalFile.exists THEN "read" ELSE "exists",
                                    !.async = TRUE,
                                    !.primaryFound = primaryFile,
                                    !.journalFound = journalFile,
                                    !.committedBefore = committed]
    /\ UNCHANGED <<alive, cache, writePromiseSource, pendingWritePromiseSource, promises,
                   writes, primaryFile, journalFile, calls, returned, written, started,
                   lastFinished, sets, crashes, committed, ioFailed, setSinceSave>>

\* Store.createAsync from one await to the next, before the value is loaded
CreateAsyncStep ==
    /\ ~alive
    /\ lastLoad.pc \in {"read", "restore", "unlink", "exists", "defaultJournal",
                        "defaultFile", "defaultUnlink"}
    /\ LET pc == lastLoad.pc
           data == Stringify(defaults)
       IN  /\ lastLoad' =
                 [lastLoad EXCEPT
                    !.content = IF pc = "read" THEN journalFile.content ELSE @,
                    !.journalCorrupt = IF pc = "read"
                                       THEN ~ParseJsonData(journalFile.content).success
                                       ELSE @,
                    !.pc = CASE pc = "read" ->
                                    IF ParseJsonData(journalFile.content).success
                                    THEN "restore" ELSE "unlink"
                             [] pc = "restore" -> "unlink"
                             [] pc = "unlink" -> "exists"
                             [] pc = "exists" ->
                                    IF primaryFile.exists \/ defaults = Undefined
                                    THEN "load" ELSE "defaultJournal"
                             [] pc = "defaultJournal" -> "defaultFile"
                             [] pc = "defaultFile" -> "defaultUnlink"
                             [] pc = "defaultUnlink" -> "load"]
           /\ primaryFile' = CASE pc = "restore" -> File(lastLoad.content)
                               [] pc = "defaultFile" -> File(data)
                               [] OTHER -> primaryFile
           /\ journalFile' = CASE pc \in {"unlink", "defaultUnlink"} -> Absent
                               [] pc = "defaultJournal" -> File(DefaultJournalText(data))
                               [] OTHER -> journalFile
    /\ UNCHANGED <<alive, cache, writePromiseSource, pendingWritePromiseSource, promises,
                   writes, calls, returned, written, started, lastFinished, sets, crashes,
                   committed, ioFailed, setSinceSave>>

\* Store.createAsync: the value is loaded and the store is constructed with it
CreateAsyncLoad ==
    /\ ~alive
    /\ lastLoad.pc = "load"
    /\ cache' = LoadValue(primaryFile)
    /\ committed' = LoadValue(primaryFile)
    /\ lastLoad' = [lastLoad EXCEPT !.afterCrash = TRUE,
                                    !.value = LoadValue(primaryFile),
                                    !.primaryLeft = primaryFile,
                                    !.journalLeft = journalFile,
                                    !.pc = "none",
                                    !.content = <<>>]
    /\ alive' = TRUE
    /\ setSinceSave' = FALSE
    /\ UNCHANGED <<writePromiseSource, pendingWritePromiseSource, promises, writes,
                   primaryFile, journalFile, calls, returned, written, started, lastFinished,
                   sets, crashes, ioFailed>>

(***************************************************************************)
(* Store: value, write(), save().                                          *)
(***************************************************************************)
\* a new invocation of _write: the text is serialized before the first await
NewWrite(c, n) ==
    [pc |-> "openJournal", data |-> Stringify(c), value |-> c, sawCalls |-> n,
     failed |-> FALSE]

\* save() as it would be if it started _write without looking at the write in flight
SaveCallAlwaysWrites(c) ==
    /\ promises' = Append(promises, "pending")
    /\ writePromiseSource' = Len(promises) + 1
    /\ writes' = Append(writes, NewWrite(c, Len(returned) + 1))
    /\ started' = started + 1
    /\ returned' = Append(returned, Len(promises) + 1)
    /\ UNCHANGED pendingWritePromiseSource

\* save() as it would be if a caller arriving during a write were handed the promise
\* of that write
SaveCallJoinsInFlight(c) ==
    IF writePromiseSource = 0
    THEN /\ promises' = Append(promises, "pending")
         /\ writePromiseSource' = Len(promises) + 1
         /\ writes' = Append(writes, NewWrite(c, Len(returned) + 1))
         /\ started' = started + 1
         /\ returned' = Append(returned, Len(promises) + 1)
         /\ UNCHANGED pendingWritePromiseSource
    ELSE /\ returned' = Append(returned, writePromiseSource)
         /\ UNCHANGED <<promises, writePromiseSource, pendingWritePromiseSource, writes,
                        started>>

\* save() as it would be if every caller arriving during a write were given a pending
\* promise of its own
SaveCallFreshPending(c) ==
    IF writePromiseSource = 0
    THEN /\ promises' = Append(promises, "pending")
         /\ writePromiseSource' = Len(promises) + 1
         /\ writes' = Append(writes, NewWrite(c, Len(returned) + 1))
         /\ started' = started + 1
         /\ returned' = Append(returned, Len(promises) + 1)
         /\ UNCHANGED pendingWritePromiseSource
    ELSE /\ promises' = Append(promises, "pending")
         /\ pendingWritePromiseSource' = Len(promises) + 1
         /\ returned' = Append(returned, Len(promises) + 1)
         /\ UNCHANGED <<writePromiseSource, writes, started>>

\* save(), c being the cache it sees
SaveCall(c) ==
    IF writePromiseSource = 0
    THEN /\ promises' = Append(promises, "pending")
         /\ writePromiseSource' = Len(promises) + 1
         /\ writes' = Append(writes, NewWrite(c, Len(returned) + 1))
         /\ started' = started + 1
         /\ returned' = Append(returned, Len(promises) + 1)
         /\ UNCHANGED pendingWritePromiseSource
    ELSE IF pendingWritePromiseSource = 0
    THEN /\ promises' = Append(promises, "pending")
         /\ pendingWritePromiseSource' = Len(promises) + 1
         /\ returned' = Append(returned, Len(promises) + 1)
         /\ UNCHANGED <<writePromiseSource, writes, started>>
    ELSE /\ returned' = Append(returned, pendingWritePromiseSource)
         /\ UNCHANGED <<promises, writePromiseSource, pendingWritePromiseSource, writes,
                        started>>

\* set value(value)
SetValue(v) ==
    /\ alive
    /\ sets < MaxSets
    /\ v # cache
    /\ cache' = v
    /\ sets' = sets + 1
    /\ setSinceSave' = TRUE
    /\ UNCHANGED <<alive, writePromiseSource, pendingWritePromiseSource, promises, writes,
                   primaryFile, journalFile, calls, returned, written, started, lastFinished, crashes,
                   committed, ioFailed, lastLoad>>

\* write(value)
Write(v) ==
    /\ alive
    /\ calls < MaxCalls
    /\ cache' = v
    /\ SaveCall(v)
    /\ written' = [op |-> "write", value |-> v]
    /\ calls' = calls + 1
    /\ setSinceSave' = FALSE
    /\ UNCHANGED <<alive, primaryFile, journalFile, lastFinished, sets, crashes, committed,
                   ioFailed, lastLoad>>

\* save()
Save ==
    /\ alive
    /\ calls < MaxCalls
    /\ SaveCall(cache)
    /\ written' = [op |-> "save", value |-> cache]
    /\ calls' = calls + 1
    /\ setSinceSave' = FALSE
    /\ UNCHANGED <<alive, cache, primaryFile, journalFile, lastFinished, sets, crashes,
                   committed, ioFailed, lastLoad>>

(***************************************************************************)
(* Store._write: one action per await.                                     *)
(***************************************************************************)
IoSteps == {"openJournal", "openFile", "journalWrite", "journalClose", "fileWrite",
            "fileClose", "unlink"}

\* the text written to the journal: the data without its last character
JournalText(data) == SubSeq(data, 1, Len(data) - 1)

\* a primary file that gets the text meant for the journal
PrimaryTextWithoutLastCharacter(data) == SubSeq(data, 1, Len(data) - 1)

\* the text written to the primary file
PrimaryText(data) == data

\* the invocation i moves to position pc
Advance(i, pc) == writes' = [writes EXCEPT ![i].pc = pc]

memVars == <<alive, cache, writePromiseSource, pendingWritePromiseSource, promises,
             calls, returned, written, started, lastFinished, sets, crashes, ioFailed, setSinceSave,
             lastLoad>>

\* await fs.promises.open(this.name + '-journal', 'w')
OpenJournal(i) ==
    /\ writes[i].pc = "openJournal"
    /\ journalFile' = File(<<>>)
    /\ Advance(i, "openFile")
    /\ UNCHANGED <<memVars, primaryFile, committed>>

\* await fs.promises.open(this.name, 'w')
OpenFile(i) ==
    /\ writes[i].pc = "openFile"
    /\ primaryFile' = File(<<>>)
    /\ Advance(i, "journalWrite")
    /\ UNCHANGED <<memVars, journalFile, committed>>

\* await journal.write(data.substring(0, data.length - 1))
JournalWrite(i) ==
    /\ writes[i].pc = "journalWrite"
    /\ journalFile' = File(JournalText(writes[i].data))
    /\ Advance(i, "journalClose")
    /\ UNCHANGED <<memVars, primaryFile, committed>>

\* await journal.close()
JournalClose(i) ==
    /\ writes[i].pc = "journalClose"
    /\ Advance(i, "fileWrite")
    /\ UNCHANGED <<memVars, primaryFile, journalFile, committed>>

\* await file.write(data)
FileWrite(i) ==
    /\ writes[i].pc = "fileWrite"
    /\ primaryFile' = File(PrimaryText(writes[i].data))
    /\ committed' = writes[i].value
    /\ Advance(i, "fileClose")
    /\ UNCHANGED <<memVars, journalFile>>

\* await file.close()
FileClose(i) ==
    /\ writes[i].pc = "fileClose"
    /\ Advance(i, "unlink")
    /\ UNCHANGED <<memVars, primaryFile, journalFile, committed>>

\* await fs.promises.unlink(this.name + '-journal')
UnlinkJournal(i) ==
    /\ writes[i].pc = "unlink"
    /\ journalFile' = Absent
    /\ Advance(i, "finish")
    /\ UNCHANGED <<memVars, primaryFile, committed>>

\* where an invocation would go without the catch block: the error leaves _write
AfterErrorUncaught == "aborted"

\* where an invocation goes when one of its file operations throws: the catch
\* block logs the error and the code after it runs
AfterError == "finish"

\* one of the file operations throws
WriteFail(i) ==
    /\ writes[i].pc \in IoSteps
    /\ writes' = [writes EXCEPT ![i].pc = AfterError, ![i].failed = TRUE]
    /\ ioFailed' = TRUE
    /\ UNCHANGED <<alive, cache, writePromiseSource, pendingWritePromiseSource, promises,
                   primaryFile, journalFile, calls, returned, written, started, lastFinished, sets, crashes,
                   committed, setSinceSave, lastLoad>>

\* the writes left when invocation i has returned
Without(i) == SubSeq(writes, 1, i - 1) \o SubSeq(writes, i + 1, Len(writes))

\* the end of _write as it would be if it resolved the pending promise together with
\* the active one instead of starting the scheduled write
WriteFinishResolvesPending(i) ==
    /\ writes[i].pc = "finish"
    /\ promises' = [p \in 1..Len(promises) |->
                       IF p \in {writePromiseSource, pendingWritePromiseSource}
                       THEN "resolved" ELSE promises[p]]
    /\ writePromiseSource' = 0
    /\ pendingWritePromiseSource' = 0
    /\ writes' = Without(i)
    /\ lastFinished' = [any |-> TRUE, failed |-> writes[i].failed,
                        sawCalls |-> writes[i].sawCalls,
                        promise |-> writePromiseSource,
                        startedNext |-> FALSE]
    /\ UNCHANGED <<alive, cache, primaryFile, journalFile, calls, returned, written, started, sets,
                   crashes, committed, ioFailed, setSinceSave, lastLoad>>

\* "Resolve and clear the active write promise", "Start the next scheduled write"
WriteFinish(i) ==
    /\ writes[i].pc = "finish"
    /\ promises' = IF writePromiseSource # 0
                   THEN [promises EXCEPT ![writePromiseSource] = "resolved"]
                   ELSE promises
    /\ IF pendingWritePromiseSource # 0
       THEN /\ writePromiseSource' = pendingWritePromiseSource
            /\ pendingWritePromiseSource' = 0
            /\ writes' = Append(Without(i), NewWrite(cache, Len(returned)))
            /\ started' = started + 1
       ELSE /\ writePromiseSource' = 0
            /\ writes' = Without(i)
            /\ UNCHANGED <<pendingWritePromiseSource, started>>
    /\ lastFinished' = [any |-> TRUE, failed |-> writes[i].failed,
                        sawCalls |-> IF writes[i].sawCalls > lastFinished.sawCalls
                                     THEN writes[i].sawCalls
                                     ELSE lastFinished.sawCalls,
                        promise |-> writePromiseSource,
                        startedNext |-> pendingWritePromiseSource # 0]
    /\ UNCHANGED <<alive, cache, primaryFile, journalFile, calls, returned, written, sets, crashes,
                   committed, ioFailed, setSinceSave, lastLoad>>

\* the steps of an invocation of _write
WriteStep(i) ==
    \/ OpenJournal(i)
    \/ OpenFile(i)
    \/ JournalWrite(i)
    \/ JournalClose(i)
    \/ FileWrite(i)
    \/ FileClose(i)
    \/ UnlinkJournal(i)
    \/ WriteFinish(i)

(***************************************************************************)
(* Bot.createStore, Bot.createStoreAsync: the stores of a bot, by name.    *)
(* One name; a Store instance is the number of its construction.           *)
(***************************************************************************)
VARIABLES
    stores,                   \* Bot._stores.get(name): an instance, 0 when absent
    storeLoaders,             \* Bot._storeLoaders.has(name)
    instances,                \* the Store instances constructed so far
    lookups                   \* the calls made, each with what it got (0: not yet)

cacheVars == <<stores, storeLoaders, instances, lookups>>

InitCache ==
    /\ stores = 0
    /\ storeLoaders = FALSE
    /\ instances = 0
    /\ lookups = <<>>

\* what a call waits for: nothing, Store.createAsync, or the promise in _storeLoaders
Lookup(kind, got, waits) == [kind |-> kind, got |-> got, waits |-> waits]

\* Bot.createStore(name, defaults)
CreateStore ==
    /\ Len(lookups) < MaxLookups
    /\ IF stores # 0
       THEN /\ lookups' = Append(lookups, Lookup("createStore", stores, "nothing"))
            /\ UNCHANGED <<stores, instances>>
       ELSE /\ instances' = instances + 1
            /\ stores' = instances + 1
            /\ lookups' = Append(lookups, Lookup("createStore", instances + 1, "nothing"))
    /\ UNCHANGED storeLoaders

\* Bot.createStoreAsync(name, defaults), up to its await or return
CreateStoreAsync ==
    /\ Len(lookups) < MaxLookups
    /\ IF stores # 0
       THEN /\ lookups' = Append(lookups, Lookup("createStoreAsync", stores, "nothing"))
            /\ UNCHANGED storeLoaders
       ELSE IF storeLoaders
       THEN /\ lookups' = Append(lookups, Lookup("createStoreAsync", 0, "loader"))
            /\ UNCHANGED storeLoaders
       ELSE /\ storeLoaders' = TRUE
            /\ lookups' = Append(lookups, Lookup("createStoreAsync", 0, "createAsync"))
    /\ UNCHANGED <<stores, instances>>

\* Bot.createStoreAsync after await Store.createAsync(...): the call i that loaded
\* the store registers it and resolves the promise the others wait for
StoreLoaded(i) ==
    /\ lookups[i].waits = "createAsync"
    /\ instances' = instances + 1
    /\ stores' = instances + 1
    /\ storeLoaders' = FALSE
    /\ lookups' = [j \in 1..Len(lookups) |->
                     IF j = i \/ lookups[j].waits = "loader"
                     THEN Lookup(lookups[j].kind, instances + 1, "nothing")
                     ELSE lookups[j]]

(***************************************************************************)
(* PromiseCompletionSource and PromiseTimeoutSource                        *)
(* (src/src/core/utilities/promises.ts).                                   *)
(***************************************************************************)
\* the values and the errors given to setResult and setError
Results == {"a", "b"}

Errors == {"e"}

\* a promise: "pending", or settled with a value or an error
Pending == [state |-> "pending", value |-> ""]

Fulfilled(value) == [state |-> "resolved", value |-> value]

Rejected(err) == [state |-> "rejected", value |-> err]

\* new PromiseCompletionSource()
NewSource ==
    [isFinished |-> FALSE, isResolved |-> FALSE, isRejected |-> FALSE, promise |-> Pending]

\* a setResult that does not look at _isFinished
SetResultUnguarded(s, value) ==
    [s EXCEPT !.isFinished = TRUE, !.isResolved = TRUE,
              !.promise = IF @.state = "pending" THEN Fulfilled(value) ELSE @]

\* PromiseCompletionSource.setResult; a settled promise ignores _resolve
SetResult(s, value) ==
    IF ~s.isFinished
    THEN [s EXCEPT !.isFinished = TRUE, !.isResolved = TRUE,
                   !.promise = IF @.state = "pending" THEN Fulfilled(value) ELSE @]
    ELSE s

\* PromiseCompletionSource.setError
SetError(s, err) ==
    IF ~s.isFinished
    THEN [s EXCEPT !.isFinished = TRUE, !.isRejected = TRUE,
                   !.promise = IF @.state = "pending" THEN Rejected(err) ELSE @]
    ELSE s

VARIABLES
    completionSource,         \* a PromiseCompletionSource in the hands of its callers
    settles,                  \* the setResult and setError calls made on it
    timeoutSource             \* a PromiseTimeoutSource:
                              \*   timer        "armed", "fired" or "cleared"
                              \*   closure      "idle", "running", "returned", "raised"
                              \*   runs         the times the closure was called
                              \*   isFinished   PromiseTimeoutSource._isFinished
                              \*   isCancelled  PromiseTimeoutSource._isCancelled
                              \*   source       PromiseTimeoutSource._source
                              \*   cancels      the cancel() calls made

promiseVars == <<completionSource, settles, timeoutSource>>

\* new PromiseCompletionSource(); new PromiseTimeoutSource(milliseconds, closure)
InitPromises ==
    /\ completionSource = NewSource
    /\ settles = 0
    /\ timeoutSource = [timer |-> "armed", closure |-> "idle", runs |-> 0,
                        isFinished |-> FALSE, isCancelled |-> FALSE,
                        source |-> NewSource, cancels |-> 0]

\* a caller's setResult(value)
CallSetResult(value) ==
    /\ settles < MaxSettles
    /\ settles' = settles + 1
    /\ completionSource' = SetResult(completionSource, value)
    /\ UNCHANGED timeoutSource

\* a caller's setError(err)
CallSetError(err) ==
    /\ settles < MaxSettles
    /\ settles' = settles + 1
    /\ completionSource' = SetError(completionSource, err)
    /\ UNCHANGED timeoutSource

\* the timer expires: _execute calls the closure, which throws at once or returns
\* a value or a promise that _execute awaits
Execute(outcome) ==
    /\ timeoutSource.timer = "armed"
    /\ timeoutSource' =
          IF outcome = "throws"
          THEN [timeoutSource EXCEPT !.timer = "fired", !.runs = @ + 1,
                                     !.closure = "raised",
                                     !.source = SetError(@, "e")]
          ELSE [timeoutSource EXCEPT !.timer = "fired", !.runs = @ + 1,
                                     !.closure = "running"]
    /\ UNCHANGED <<completionSource, settles>>

\* _execute after its await, the closure's promise fulfilled: setResult(true)
ClosureReturns ==
    /\ timeoutSource.closure = "running"
    /\ timeoutSource' = [timeoutSource EXCEPT !.closure = "returned",
                                              !.source = SetResult(@, "true")]
    /\ UNCHANGED <<completionSource, settles>>

\* _execute after its await, the closure's promise rejected: setError(err)
ClosureRaises ==
    /\ timeoutSource.closure = "running"
    /\ timeoutSource' = [timeoutSource EXCEPT !.closure = "raised",
                                              !.source = SetError(@, "e")]
    /\ UNCHANGED <<completionSource, settles>>

\* PromiseTimeoutSource.cancel
Cancel ==
    /\ timeoutSource.cancels < MaxCancels
    /\ timeoutSource' =
          IF ~timeoutSource.source.isFinished
          THEN [timeoutSource EXCEPT
                   !.cancels = @ + 1,
                   !.isCancelled = TRUE,
                   !.source = SetResult(@, "false"),
                   !.timer = IF @ = "armed" THEN "cleared" ELSE @]
          ELSE [timeoutSource EXCEPT !.cancels = @ + 1]
    /\ UNCHANGED <<completionSource, settles>>

(***************************************************************************)
(* EventManager.                                                           *)
(***************************************************************************)
EventNames == {"ready"}

Handlers == {"h1", "h2"}

\* the handlers that may throw or reject; the others resolve
Faulty == {"h2"}

\* the elements of the sequence s
Range(s) == {s[i] : i \in 1..Len(s)}

RECURSIVE Remove(_, _)
\* the sequence s without the element x
Remove(s, x) ==
    IF Len(s) = 0 THEN s
    ELSE IF s[1] = x THEN Remove(Tail(s), x)
    ELSE <<s[1]>> \o Remove(Tail(s), x)

\* an invoke() call of a caller: typeof event, and what became of the call ("none":
\* no call yet, "queued" and "dispatched": its promise is pending, "resolved" and
\* "rejected": its promise is settled, "threw": it returned no promise)
Invoked(typeofEvent, outcome) == [typeofEvent |-> typeofEvent, outcome |-> outcome]

InitEvents ==
    /\ status = "offline"
    /\ handlers = [n \in EventNames |-> <<>>]
    /\ queue = <<>>
    /\ invocations = EmptyBag
    /\ invokes = 0
    /\ flushes = 0
    /\ logged = 0
    /\ lastInvoke = Invoked("undefined", "none")
    /\ lastCalled = <<>>

\* the states of the bot in which events are dispatched rather than queued
Dispatching(s) == s \in {"online", "stopping"}

\* Bot.start: this._status = 'starting'
BotStarting ==
    /\ status = "offline"
    /\ status' = "starting"
    /\ UNCHANGED <<handlers, queue, invocations, invokes, flushes, logged, lastInvoke, lastCalled>>

\* Bot.stop: this._status = 'stopping'
BotStopping ==
    /\ status = "online"
    /\ status' = "stopping"
    /\ UNCHANGED <<handlers, queue, invocations, invokes, flushes, logged, lastInvoke, lastCalled>>

\* Bot.stop: this._status = 'offline'
BotOffline ==
    /\ status = "stopping"
    /\ status' = "offline"
    /\ UNCHANGED <<handlers, queue, invocations, invokes, flushes, logged, lastInvoke, lastCalled>>

\* EventManager.register
Register(n, h) ==
    /\ h \notin Range(handlers[n])
    /\ handlers' = [handlers EXCEPT ![n] = Append(@, h)]
    /\ UNCHANGED <<status, queue, invocations, invokes, flushes, logged, lastInvoke, lastCalled>>

\* EventManager.deregister
Deregister(n, h) ==
    /\ h \in Range(handlers[n])
    /\ handlers' = [handlers EXCEPT ![n] = Remove(@, h)]
    /\ UNCHANGED <<status, queue, invocations, invokes, flushes, logged, lastInvoke, lastCalled>>

\* EventManager.clear(event) and, with a single event name, EventManager.clear()
Clear(n) ==
    /\ Len(handlers[n]) > 0
    /\ handlers' = [handlers EXCEPT ![n] = <<>>]
    /\ UNCHANGED <<status, queue, invocations, invokes, flushes, logged, lastInvoke, lastCalled>>

\* the handlers of event n, each called once more
Called(n, counts) ==
    [h \in Handlers |-> IF h \in Range(handlers[n]) THEN counts[h] + 1 ELSE counts[h]]

\* invoke(), the dispatch branch, for queue entry q (below 0: a caller's event): every
\* handler is called; those in thrown throw synchronously, the others return a
\* promise that is awaited
DispatchRecord(n, q, thrown) ==
    [name |-> n, q |-> q, waiting |-> Range(handlers[n]) \ thrown]

\* the queue entries that flush dispatches: every entry of the queue
FlushedEntries == 1..Len(queue)

RECURSIVE Collect(_, _)
\* the records of recs, a sequence, that still wait for a handler
Collect(recs, q) ==
    IF q = 0 THEN EmptyBag
    ELSE IF q \in FlushedEntries /\ recs[q].waiting # {}
         THEN Collect(recs, q - 1) (+) SetToBag({recs[q]})
         ELSE Collect(recs, q - 1)

RECURSIVE Sum(_, _)
\* the number of handlers that threw, over the entries 1..q
Sum(thrown, q) ==
    IF q = 0 THEN 0
    ELSE Sum(thrown, q - 1) + (IF q \in FlushedEntries THEN Cardinality(thrown[q]) ELSE 0)

\* the loop of flush, thrown[q] being the handlers that throw synchronously when
\* called for entry q
FlushWith(thrown) ==
    LET recs == [q \in 1..Len(queue) |-> DispatchRecord(queue[q].name, q, thrown[q])]
    IN /\ invocations' = invocations (+) Collect(recs, Len(queue))
       /\ queue' = [q \in 1..Len(queue) |->
                       IF q \in FlushedEntries
                       THEN [queue[q] EXCEPT
                                !.deliveries = Called(queue[q].name, @),
                                !.resolved = @ \/ (recs[q].waiting = {})]
                       ELSE queue[q]]
       /\ logged' = logged + Sum(thrown, Len(queue))

\* an invoke() in which the first handler to throw ends the loop and the call
InvokeStopsAtThrow(n) ==
    /\ invokes < MaxInvokes
    /\ invokes' = invokes + 1
    /\ IF ~Dispatching(status)
       THEN /\ queue' = Append(queue, [name |-> n, resolved |-> FALSE,
                                       deliveries |-> [h \in Handlers |-> 0]])
            /\ lastInvoke' = [typeofEvent |-> "string", outcome |-> "queued"]
            /\ lastCalled' = <<>>
            /\ UNCHANGED <<invocations, logged>>
       ELSE /\ \E thrown \in SUBSET (Range(handlers[n]) \cap Faulty) :
                 IF thrown = {}
                 THEN /\ invocations' =
                            IF Range(handlers[n]) = {} THEN invocations
                            ELSE invocations (+)
                                 SetToBag({DispatchRecord(n, 0 - (invokes + 1), {})})
                      /\ lastInvoke' =
                            [typeofEvent |-> "string",
                             outcome |-> IF Range(handlers[n]) = {}
                                         THEN "resolved" ELSE "dispatched"]
                      /\ lastCalled' = handlers[n]
                      /\ UNCHANGED logged
                 ELSE LET first == CHOOSE k \in 1..Len(handlers[n]) :
                                      /\ handlers[n][k] \in thrown
                                      /\ \A j \in 1..(k - 1) : handlers[n][j] \notin thrown
                      IN  /\ lastCalled' = SubSeq(handlers[n], 1, first)
                          /\ lastInvoke' = [typeofEvent |-> "string", outcome |-> "rejected"]
                          /\ UNCHANGED <<invocations, logged>>
            /\ UNCHANGED queue
    /\ UNCHANGED <<status, handlers, flushes>>

\* a flush that dispatches the queue whatever the status of the bot
FlushBodyWhateverStatus(s) ==
    \E thrown \in [1..Len(queue) -> SUBSET Faulty] :
        /\ \A q \in 1..Len(queue) : thrown[q] \subseteq Range(handlers[queue[q].name])
        /\ FlushWith(thrown)

\* flush(), s being the status of the bot
FlushBody(s) ==
    IF Dispatching(s)
    THEN \E thrown \in [1..Len(queue) -> SUBSET Faulty] :
            /\ \A q \in 1..Len(queue) : thrown[q] \subseteq Range(handlers[queue[q].name])
            /\ FlushWith(thrown)
    ELSE UNCHANGED <<queue, invocations, logged>>

\* Bot.start: this._status = 'online'; this.events.flush()
BotOnline ==
    /\ status = "starting"
    /\ flushes < MaxFlushes
    /\ status' = "online"
    /\ flushes' = flushes + 1
    /\ FlushBody("online")
    /\ UNCHANGED <<handlers, invokes, lastInvoke, lastCalled>>

\* EventManager.flush, called on its own
Flush ==
    /\ flushes < MaxFlushes
    /\ flushes' = flushes + 1
    /\ FlushBody(status)
    /\ UNCHANGED <<status, handlers, invokes, lastInvoke, lastCalled>>

\* the k-th invoke() call of a caller, where a dispatch has a queue entry otherwise
CallerId(k) == 0 - k

\* EventManager.invoke with a string as the event name
Invoke(n) ==
    /\ invokes < MaxInvokes
    /\ invokes' = invokes + 1
    /\ IF ~Dispatching(status)
       THEN /\ queue' = Append(queue, [name |-> n, resolved |-> FALSE,
                                       deliveries |-> [h \in Handlers |-> 0]])
            /\ lastInvoke' = Invoked("string", "queued")
            /\ lastCalled' = <<>>
            /\ UNCHANGED <<invocations, logged>>
       ELSE /\ \E thrown \in SUBSET (Range(handlers[n]) \cap Faulty) :
                 /\ invocations' =
                        IF Range(handlers[n]) \ thrown = {} THEN invocations
                        ELSE invocations (+) SetToBag({DispatchRecord(n, CallerId(invokes + 1), thrown)})
                 /\ logged' = logged + Cardinality(thrown)
                 /\ lastInvoke' = IF Range(handlers[n]) \ thrown = {}
                                  THEN Invoked("string", "resolved")
                                  ELSE Invoked("string", "dispatched")
            /\ lastCalled' = handlers[n]
            /\ UNCHANGED queue
    /\ UNCHANGED <<status, handlers, flushes>>

\* EventManager.invoke with an event name that is not a string: the async
\* function throws, so the promise it returns is rejected
InvokeNonString ==
    /\ invokes < MaxInvokes
    /\ invokes' = invokes + 1
    /\ lastInvoke' = Invoked("number", "rejected")
    /\ lastCalled' = <<>>
    /\ UNCHANGED <<status, handlers, queue, invocations, flushes, logged>>

\* a dispatch whose promise resolves as soon as one of its handlers settles
HandlerSettlesFirstWins(i, h) ==
    /\ h \in i.waiting
    /\ invocations' = invocations (-) SetToBag({i})
    /\ queue' = IF i.q > 0 THEN [queue EXCEPT ![i.q].resolved = TRUE] ELSE queue
    /\ lastInvoke' = IF i.q = 0 - invokes
                     THEN [typeofEvent |-> "string", outcome |-> "resolved"] ELSE lastInvoke
    /\ UNCHANGED <<status, handlers, invokes, flushes, lastCalled>>

\* the promise of handler h settles; when it is the last one of invocation i,
\* Promise.all resolves and a queued event's source is resolved
HandlerSettles(i, h) ==
    /\ h \in i.waiting
    /\ IF i.waiting = {h}
       THEN /\ invocations' = invocations (-) SetToBag({i})
            /\ queue' = IF i.q > 0 THEN [queue EXCEPT ![i.q].resolved = TRUE] ELSE queue
            /\ lastInvoke' = IF i.q = CallerId(invokes)
                             THEN Invoked("string", "resolved") ELSE lastInvoke
       ELSE /\ invocations' =
                   (invocations (-) SetToBag({i})) (+) SetToBag({[i EXCEPT !.waiting = @ \ {h}]})
            /\ UNCHANGED <<queue, lastInvoke>>
    /\ UNCHANGED <<status, handlers, invokes, flushes, lastCalled>>

\* res.then(resolve, ...)
HandlerResolves(i, h) == HandlerSettles(i, h) /\ UNCHANGED logged

\* res.then(..., err => { this._logger.error(...); resolve() })
HandlerRejects(i, h) == h \in Faulty /\ HandlerSettles(i, h) /\ logged' = logged + 1

(***************************************************************************)
(* TaskManager.  One service with one task method.  Times are in           *)
(* milliseconds; the clock advances in steps of the shortest reattempt     *)
(* delay, and a timer that is due fires before the clock advances.         *)
(***************************************************************************)
Step == 15000

Boot == 4 * Step                      \* Date.now() when the process starts

MaxTime == Boot + MaxTicks * Step

Schedules == {"*/30 * * * * *", "0 * * * * *"}

Period(schedule) == IF schedule = "*/30 * * * * *" THEN 30000 ELSE 60000

\* CronJob.nextDate(): the first time of the schedule after `time`
NextDate(schedule, time) == ((time \div Period(schedule)) + 1) * Period(schedule)

\* the options of the @Task decorator; numReattempts and timeout as given
TaskOptionSets ==
    { [schedule |-> "*/30 * * * * *", immediate |-> f[1], immediateWhenLate |-> f[2],
       immediateFirstRun |-> f[3], timeout |-> t, numReattempts |-> n] :
      f \in {<<FALSE, FALSE, FALSE>>, <<TRUE, FALSE, FALSE>>, <<FALSE, TRUE, TRUE>>},
      t \in {0, 15000}, n \in {1, 2} }

NoData == [taskSchedule |-> "", timeNextRun |-> 0, timeLastRun |-> 0, totalRuns |-> 0,
           numFailures |-> 0, timeNextReattempt |-> 0]

\* the store 'bancho/tasks' as an earlier process left it: the record of the task (if any)
\* and the records of tasks that exist no more, by task name
StoredBefore ==
    { [inStore |-> FALSE, data |-> NoData, orphans |-> <<>>],
      [inStore |-> FALSE, data |-> NoData, orphans |-> <<"gone", "lost">>],
      \* ran before, its next run is overdue
      [inStore |-> TRUE, orphans |-> <<"gone">>,
       data |-> [taskSchedule |-> "*/30 * * * * *", timeNextRun |-> 2 * Step,
                 timeLastRun |-> Step, totalRuns |-> 1, numFailures |-> 0,
                 timeNextReattempt |-> 0]],
      \* ran before, its next run is yet to come
      [inStore |-> TRUE, orphans |-> <<>>,
       data |-> [taskSchedule |-> "*/30 * * * * *", timeNextRun |-> Boot + 2 * Step,
                 timeLastRun |-> Step, totalRuns |-> 1, numFailures |-> 0,
                 timeNextReattempt |-> 0]],
      \* was waiting for a reattempt
      [inStore |-> TRUE, orphans |-> <<>>,
       data |-> [taskSchedule |-> "*/30 * * * * *", timeNextRun |-> 2 * Step,
                 timeLastRun |-> Step, totalRuns |-> 1, numFailures |-> 1,
                 timeNextReattempt |-> Boot + Step]],
      \* was waiting for a reattempt that is overdue
      [inStore |-> TRUE, orphans |-> <<>>,
       data |-> [taskSchedule |-> "*/30 * * * * *", timeNextRun |-> 2 * Step,
                 timeLastRun |-> Step, totalRuns |-> 1, numFailures |-> 1,
                 timeNextReattempt |-> 3 * Step]],
      \* was registered with another schedule
      [inStore |-> TRUE, orphans |-> <<>>,
       data |-> [taskSchedule |-> "0 * * * * *", timeNextRun |-> Boot + 4 * Step,
                 timeLastRun |-> Step, totalRuns |-> 1, numFailures |-> 0,
                 timeNextReattempt |-> 0]] }

\* what the callback does before it first yields: it returns (a promise, or a value), or
\* it throws
Outcomes == {"returns", "throws"}

VARIABLES
    \* ---- TaskManager
    now,                      \* Date.now()
    options,                  \* Task.options
    tasksStarted,             \* TaskManager.start() was called
    tm                        \* the task and what the manager holds for it:
                              \*   registered         "never", "yes" (in _tasks), "removed"
                              \*   data               Task.data
                              \*   inStore            Task.data is an element of _store.value
                              \*   orphans            the records of _store.value that are of no task
                              \*   collected          the records start() removed
                              \*   others             the other tasks: in _tasks, job started
                              \*   persisted          _store.value at the last _store.save()
                              \*   jobRunning,jobNext Task.job: started, and its next tick
                              \*   running            the task is a key of _running
                              \*   invocations        the calls of _invokeTask at their await
                              \*   background         callbacks running after their timeout
                              \*   reattemptTimeouts  the due times of _reattemptTimeouts
                              \*   lastOutcome        how the last call of _invokeTask ended
                              \*   lastEvent          the TaskEvent of the last call of the callback
                              \*   callbacks          the number of calls of the callback so far

taskVars == <<now, options, tasksStarted, tm>>

\* the task manager of a new process that finds the records before in its store
NewManager(before) ==
    [registered |-> "never", data |-> before.data, inStore |-> before.inStore,
     orphans |-> before.orphans, collected |-> <<>>,
     others |-> [name \in {"sibling", "foreign"} |->
                   [registered |-> "never", jobRunning |-> FALSE]],
     persisted |-> [inStore |-> before.inStore, data |-> before.data,
                    orphans |-> before.orphans],
     jobRunning |-> FALSE, jobNext |-> 0, running |-> FALSE,
     invocations |-> EmptyBag, background |-> 0,
     reattemptTimeouts |-> EmptyBag,
     lastOutcome |-> [n |-> 0, kind |-> "none", attempt |-> 0, startTime |-> 0],
     lastEvent |-> [given |-> FALSE, isFirstRun |-> FALSE,
                    isImmediate |-> FALSE, isImmediateLate |-> FALSE,
                    isImmediateBoot |-> FALSE, isReattempt |-> FALSE,
                    currentInvokeTime |-> 0, nextInvokeTime |-> 0,
                    lastInvokeTime |-> 0],
     callbacks |-> 0]

InitTasks ==
    /\ now = Boot
    /\ options \in TaskOptionSets
    /\ tasksStarted = FALSE
    /\ \E before \in StoredBefore : tm = NewManager(before)

\* CronJob.start(): nothing if the job runs already
JobStart(s) ==
    IF s.jobRunning THEN s
    ELSE [s EXCEPT !.jobRunning = TRUE, !.jobNext = NextDate(options.schedule, now)]

\* CronJob.stop()
JobStop(s) == [s EXCEPT !.jobRunning = FALSE]

\* _store.save(): the records of _store.value as they are at the call
StoreSave(s) ==
    [s EXCEPT !.persisted = [inStore |-> s.inStore,
                             data |-> IF s.inStore THEN s.data ELSE NoData,
                             orphans |-> s.orphans]]

\* a policy whose steps begin one failure early
GetNextAttemptTimeEarlySteps(s) ==
    LET reattempt == s.data.numFailures
    IN  IF reattempt < 3 THEN now + 15000
        ELSE IF reattempt < 7 THEN now + 30000
        ELSE IF reattempt < 15 THEN now + 45000
        ELSE now + 60000

GetNextAttemptTime(s) ==
    LET reattempt == s.data.numFailures
    IN  IF reattempt <= 3 THEN now + 15000
        ELSE IF reattempt <= 7 THEN now + 30000
        ELSE IF reattempt <= 15 THEN now + 45000
        ELSE now + 60000

\* _createTimeout: the time the timeout fires, 0 for none
CreateTimeout == IF options.timeout <= 0 THEN 0 ELSE now + options.timeout

Ended(s, kind, attempt, startTime) ==
    [s EXCEPT !.lastOutcome = [n |-> @.n + 1, kind |-> kind, attempt |-> attempt,
                               startTime |-> startTime]]

\* no TaskEvent: the event parameter of _invokeTask left out.  lastInvokeTime 0 stands
\* for undefined
NoEvent == [given |-> FALSE, isFirstRun |-> FALSE, isImmediate |-> FALSE,
            isImmediateLate |-> FALSE, isImmediateBoot |-> FALSE, isReattempt |-> FALSE,
            currentInvokeTime |-> 0, nextInvokeTime |-> 0, lastInvokeTime |-> 0]

RECURSIVE InvokeTask(_, _, _)

ScheduleReattemptAlwaysDelays(s, outcome) ==
    LET timeRemaining == IF s.data.timeNextReattempt - now > 0
                         THEN s.data.timeNextReattempt - now ELSE 0
    IN  [s EXCEPT !.reattemptTimeouts = @ (+) SetToBag({now + timeRemaining})]

\* a _scheduleReattempt that arms no timer
ScheduleReattemptArmsNothing(s, outcome) == s

ScheduleReattempt(s, outcome) ==
    LET timeRemaining == IF s.data.timeNextReattempt - now > 0
                         THEN s.data.timeNextReattempt - now ELSE 0
    IN  IF timeRemaining <= 0 THEN InvokeTask(s, NoEvent, outcome)
        ELSE [s EXCEPT !.reattemptTimeouts = @ (+) SetToBag({now + timeRemaining})]

\* a finally block that saves the store and leaves the task in _running
FinallyKeepsSlot(s) == StoreSave(s)

\* the finally block of _invokeTask
Finally(s) == StoreSave([s EXCEPT !.running = FALSE])

\* a catch block whose exhaustion branch leaves timeNextReattempt as it is
CatchBlockKeepsReattemptTime(s, attemptNumber, startTime, outcome) ==
    LET nextAttemptNumber == attemptNumber + 1
        maxAttempts == options.numReattempts
        s1 == Ended([s EXCEPT !.running = FALSE], "failed", attemptNumber, startTime)
    IN  IF nextAttemptNumber <= maxAttempts
        THEN LET s2 == [JobStop(s1) EXCEPT !.data.numFailures = nextAttemptNumber]
                 s3 == [s2 EXCEPT !.data.timeNextReattempt = GetNextAttemptTime(s2)]
             IN  ScheduleReattempt(StoreSave(s3), outcome)
        ELSE JobStart(StoreSave(
                 [s1 EXCEPT !.data.timeNextRun = NextDate(options.schedule, now),
                            !.data.numFailures = 0]))

\* the catch block of _invokeTask
CatchBlock(s, attemptNumber, startTime, outcome) ==
    LET nextAttemptNumber == attemptNumber + 1
        maxAttempts == options.numReattempts
        s1 == Ended([s EXCEPT !.running = FALSE], "failed", attemptNumber, startTime)
    IN  IF nextAttemptNumber <= maxAttempts
        THEN LET s2 == [JobStop(s1) EXCEPT !.data.numFailures = nextAttemptNumber]
                 s3 == [s2 EXCEPT !.data.timeNextReattempt = GetNextAttemptTime(s2)]
             IN  ScheduleReattempt(StoreSave(s3), outcome)
        ELSE JobStart(StoreSave(
                 [s1 EXCEPT !.data.timeNextRun = NextDate(options.schedule, now),
                            !.data.numFailures = 0,
                            !.data.timeNextReattempt = 0]))

\* the try block of _invokeTask after the await: the callback was faster than the
\* timeout, or the timeout fired
AfterRaceKeepsFailures(s, attemptNumber, startTime) ==
    Ended([s EXCEPT !.data.timeLastRun = startTime,
                    !.data.timeNextRun = NextDate(options.schedule, now),
                    !.data.totalRuns = @ + 1],
          "finished", attemptNumber, startTime)

AfterRace(s, attemptNumber, startTime) ==
    LET s1 == [s EXCEPT !.data.timeLastRun = startTime,
                        !.data.timeNextRun = NextDate(options.schedule, now),
                        !.data.totalRuns = @ + 1]
        s2 == IF attemptNumber > 0
              THEN JobStart([s1 EXCEPT !.data.numFailures = 0,
                                       !.data.timeNextReattempt = 0])
              ELSE s1
    IN  Ended(s2, "finished", attemptNumber, startTime)

\* _invokeTask from the entry in _running up to the await; event is the descriptor the
\* caller gave, if any
Begin(s, event, outcome) ==
    LET attemptNumber == s.data.numFailures
        built == [given |-> TRUE,
                  isFirstRun |-> s.data.totalRuns = 0,
                  isImmediate |-> FALSE,
                  isImmediateLate |-> FALSE,
                  isImmediateBoot |-> FALSE,
                  isReattempt |-> attemptNumber > 0,
                  currentInvokeTime |-> s.data.timeNextRun,
                  nextInvokeTime |-> NextDate(options.schedule, now),
                  lastInvokeTime |-> s.data.timeLastRun]
        s1 == [s EXCEPT !.running = TRUE,
                        !.lastEvent = IF event.given THEN event ELSE built,
                        !.callbacks = @ + 1]
    IN  IF outcome = "throws"
        THEN Finally(CatchBlock(s1, attemptNumber, now, outcome))
        ELSE [s1 EXCEPT !.invocations = @ (+) SetToBag({[attemptNumber |-> attemptNumber,
                                                         startTime |-> now,
                                                         timeout |-> CreateTimeout]})]

InvokeTaskUnguarded(s, event, outcome) == Begin(s, event, outcome)

InvokeTaskSkipInsideTry(s, event, outcome) ==
    IF s.running THEN Finally(Ended(s, "skipped", 0, 0)) ELSE Begin(s, event, outcome)

InvokeTask(s, event, outcome) ==
    IF s.running THEN Ended(s, "skipped", 0, 0) ELSE Begin(s, event, outcome)

\* the task of the model is a method of service "alpha", which has a second task method;
\* service "beta" has one.  Of these other tasks only the registration and the cron job
\* are modelled
Services == {"alpha", "beta"}

OtherTasks == {"sibling", "foreign"}

ServiceOf(name) == IF name = "foreign" THEN "beta" ELSE "alpha"

CheckScheduleKeepsNextRun(data) == [data EXCEPT !.taskSchedule = options.schedule]

\* TaskManager.register: check for schedule changes
CheckSchedule(data) ==
    IF data.taskSchedule # options.schedule
    THEN [data EXCEPT !.timeNextRun = 0, !.taskSchedule = options.schedule]
    ELSE data

\* TaskManager.register, called by Service._start
RegisterTasks(service) ==
    /\ ~tasksStarted
    /\ IF service = ServiceOf("task")
       THEN /\ tm.registered = "never"
            /\ LET fresh == [taskSchedule |-> options.schedule, timeNextRun |-> 0,
                             timeLastRun |-> 0, totalRuns |-> 0, numFailures |-> 0,
                             timeNextReattempt |-> 0]
                   data == IF tm.inStore THEN tm.data ELSE fresh
               IN  tm' = [tm EXCEPT !.registered = "yes",
                                    !.inStore = TRUE,
                                    !.data = CheckSchedule(data),
                                    !.others = [name \in OtherTasks |->
                                                  IF ServiceOf(name) = service
                                                  THEN [registered |-> "yes", jobRunning |-> FALSE]
                                                  ELSE @[name]]]
       ELSE /\ tm.registered = "yes"
            /\ \A name \in OtherTasks :
                   ServiceOf(name) = service => tm.others[name].registered = "never"
            /\ tm' = [tm EXCEPT !.others = [name \in OtherTasks |->
                                              IF ServiceOf(name) = service
                                              THEN [registered |-> "yes", jobRunning |-> FALSE]
                                              ELSE @[name]]]
    /\ UNCHANGED <<now, options, tasksStarted>>

DeregisterEveryTask(s, service) ==
    [JobStop(s) EXCEPT !.registered = IF @ = "yes" THEN "removed" ELSE @,
                       !.others = [name \in OtherTasks |->
                                     IF @[name].registered = "yes"
                                     THEN [registered |-> "removed", jobRunning |-> FALSE]
                                     ELSE @[name]]]

\* the loop of TaskManager.deregister over _tasks
DeregisterService(s, service) ==
    LET s1 == IF ServiceOf("task") = service /\ s.registered = "yes"
              THEN [JobStop(s) EXCEPT !.registered = "removed"]
              ELSE s
    IN  [s1 EXCEPT !.others = [name \in OtherTasks |->
                                 IF ServiceOf(name) = service /\ @[name].registered = "yes"
                                 THEN [registered |-> "removed", jobRunning |-> FALSE]
                                 ELSE @[name]]]

\* TaskManager.deregister, called by Service._stop of a service that was started
DeregisterTasks(service) ==
    /\ IF service = ServiceOf("task") THEN tm.registered = "yes"
       ELSE \E name \in OtherTasks :
                ServiceOf(name) = service /\ tm.others[name].registered = "yes"
    /\ tm' = DeregisterService(tm, service)
    /\ UNCHANGED <<now, options, tasksStarted>>

RECURSIVE CleanUpFirstOnly(_, _)

CleanUpFirstOnly(s, left) ==
    IF left = <<>> THEN s
    ELSE StoreSave([s EXCEPT !.orphans = SelectSeq(@, LAMBDA name : name # Head(left)),
                             !.collected = Append(@, Head(left))])

RECURSIVE CleanUp(_, _)

\* the first loop of TaskManager.start for the records of no task, left being those
\* still to visit: each is filtered out of _store.value, which is then saved
CleanUp(s, left) ==
    IF left = <<>> THEN s
    ELSE CleanUp(StoreSave([s EXCEPT !.orphans = SelectSeq(@, LAMBDA name : name # Head(left)),
                                     !.collected = Append(@, Head(left))]),
                 Tail(left))

IsLateWhateverTheTime(s) == options.immediateWhenLate

\* isLate of TaskManager.start
IsLate(s) ==
    options.immediateWhenLate /\ s.data.timeNextRun > 0 /\ s.data.timeNextRun <= now

\* TaskManager.start, called by Bot.start after the services were started
StartTasks ==
    /\ ~tasksStarted
    /\ tm.registered # "never"
    /\ tasksStarted' = TRUE
    /\ \E outcome \in Outcomes :
         LET keep == tm.inStore /\ tm.registered = "yes"
             swept == CleanUp(tm, tm.orphans)
             cleaned == IF tm.inStore /\ ~keep
                        THEN StoreSave([swept EXCEPT !.inStore = FALSE,
                                                     !.collected = Append(@, "task")])
                        ELSE swept
             s0 == IF cleaned.data.timeNextRun = 0
                   THEN [cleaned EXCEPT !.data.timeNextRun = NextDate(options.schedule, now)]
                   ELSE cleaned
             isLate == IsLate(s0)
             isFirstRun == options.immediateFirstRun /\ s0.data.totalRuns = 0
             isBoot == options.immediate
             nextInvokeTime == NextDate(options.schedule, now)
             s1 == IF isLate \/ isFirstRun \/ isBoot THEN InvokeTask(s0, [given |-> TRUE,
                                         isFirstRun |-> s0.data.totalRuns = 0,
                                         isImmediate |-> TRUE,
                                         isImmediateLate |-> isLate,
                                         isImmediateBoot |-> isBoot,
                                         isReattempt |-> FALSE,
                                         currentInvokeTime |-> s0.data.timeNextRun,
                                         nextInvokeTime |-> nextInvokeTime,
                                         lastInvokeTime |-> s0.data.timeLastRun],
                                    outcome)
                   ELSE s0
             s2 == StoreSave(JobStart([s1 EXCEPT !.data.timeNextRun = nextInvokeTime]))
             s3 == IF cleaned.registered # "yes" THEN cleaned
                   ELSE IF s0.data.timeNextReattempt # 0 THEN ScheduleReattempt(s0, outcome)
                   ELSE s2
         IN  tm' = [s3 EXCEPT !.others = [name \in OtherTasks |->
                                            [@[name] EXCEPT !.jobRunning =
                                                                @ \/ s3.others[name].registered = "yes"]]]
    /\ UNCHANGED <<now, options>>

\* the cron job of the task ticks
CronFire ==
    /\ tm.jobRunning
    /\ now >= tm.jobNext
    /\ \E outcome \in Outcomes :
         tm' = InvokeTask([tm EXCEPT !.jobNext = NextDate(options.schedule, now)], NoEvent,
                         outcome)
    /\ UNCHANGED <<now, options, tasksStarted>>

\* a timer of _scheduleReattempt fires
ReattemptFires(due) ==
    /\ now >= due
    /\ \E outcome \in Outcomes :
         tm' = InvokeTask([tm EXCEPT !.reattemptTimeouts = @ (-) SetToBag({due})], NoEvent,
                         outcome)
    /\ UNCHANGED <<now, options, tasksStarted>>

\* the promise of the callback is fulfilled before the timeout
CallbackResolves(i) ==
    /\ tm' = Finally(AfterRace([tm EXCEPT !.invocations = @ (-) SetToBag({i})],
                               i.attemptNumber, i.startTime))
    /\ UNCHANGED <<now, options, tasksStarted>>

\* the promise of the callback is rejected before the timeout
CallbackRejects(i) ==
    /\ \E outcome \in Outcomes :
         tm' = Finally(CatchBlock([tm EXCEPT !.invocations = @ (-) SetToBag({i})],
                                  i.attemptNumber, i.startTime, outcome))
    /\ UNCHANGED <<now, options, tasksStarted>>

TimeoutFiresAsFailure(i) ==
    /\ i.timeout > 0
    /\ now >= i.timeout
    /\ tm.background < MaxBackground
    /\ tm' = Finally(CatchBlock([tm EXCEPT !.invocations = @ (-) SetToBag({i}),
                                           !.background = @ + 1],
                                i.attemptNumber, i.startTime, "returns"))
    /\ UNCHANGED <<now, options, tasksStarted>>

\* the timeout of an invocation fires first: _invokeTask goes on as after a success and
\* the callback keeps running
TimeoutFires(i) ==
    /\ i.timeout > 0
    /\ now >= i.timeout
    /\ tm.background < MaxBackground
    /\ tm' = Finally(AfterRace([tm EXCEPT !.invocations = @ (-) SetToBag({i}),
                                          !.background = @ + 1],
                               i.attemptNumber, i.startTime))
    /\ UNCHANGED <<now, options, tasksStarted>>

\* a callback that outlived its timeout ends, fulfilled or rejected: nobody awaits it
BackgroundEnds ==
    /\ tm.background > 0
    /\ tm' = [tm EXCEPT !.background = @ - 1]
    /\ UNCHANGED <<now, options, tasksStarted>>

TimerDue ==
    \/ tm.jobRunning /\ now >= tm.jobNext
    \/ \E due \in BagToSet(tm.reattemptTimeouts) : now >= due
    \/ \E i \in BagToSet(tm.invocations) : i.timeout > 0 /\ now >= i.timeout

Tick ==
    /\ now < MaxTime
    /\ ~TimerDue
    /\ now' = now + Step
    /\ UNCHANGED <<options, tasksStarted, tm>>

(***************************************************************************)
(* TaskManager: the array of records in _store.value, for the tasks of     *)
(* every service.  A record is an object: a task holds the object, and the *)
(* array holds it too unless start() has filtered it out.  Of an           *)
(* invocation only its writes to the record and its save() are modelled.   *)
(***************************************************************************)
\* the calls made on the task manager, the ends of invocations included
MaxRegistryCalls == 5

\* the task methods of a service, in the order of reflection
Methods(service) == IF service = "alpha" THEN <<"task", "sibling">> ELSE <<"task">>

\* the schedule every task method is decorated with
MethodSchedule == "*/30 * * * * *"

\* the object register() hands to _getTaskDataFromStore
NewTaskData(service, name) ==
    [serviceId |-> service, taskName |-> name, taskSchedule |-> MethodSchedule,
     timeNextRun |-> 0, timeLastRun |-> 0, totalRuns |-> 0, numFailures |-> 0,
     timeNextReattempt |-> 0]

\* the arrays an earlier process may have left in the store 'bancho/tasks'
FoundRecords ==
    { <<>>,
      \* a task that ran and waits for a reattempt
      << [NewTaskData("alpha", "task") EXCEPT !.timeNextRun = 2 * Step, !.timeLastRun = Step,
                                              !.totalRuns = 1, !.numFailures = 1,
                                              !.timeNextReattempt = Boot + Step] >>,
      \* a task registered with another schedule, and a task of a service that is gone
      << [NewTaskData("beta", "task") EXCEPT !.taskSchedule = "0 * * * * *",
                                             !.timeNextRun = Boot + 4 * Step,
                                             !.timeLastRun = Step, !.totalRuns = 1],
         [NewTaskData("gamma", "task") EXCEPT !.timeNextRun = Boot + 2 * Step,
                                              !.timeLastRun = Step, !.totalRuns = 1] >> }

VARIABLES
    taskData,                 \* the TaskData objects created so far, by identity
    storeValue,               \* _store.value: the identities of the objects in the array
    tasks,                    \* _tasks in insertion order: service, name and data of each Task
    persistedValue,           \* the array as it was at the last _store.save()
    registryCalls             \* the calls made so far

registryVars == <<taskData, storeValue, tasks, persistedValue, registryCalls>>

\* a task manager with nothing in its store
InitRegistry ==
    /\ taskData = <<>>
    /\ storeValue = <<>>
    /\ tasks = <<>>
    /\ persistedValue = <<>>
    /\ registryCalls = 0

\* the task manager in its parts: objects, array, tasks and saved array
Registry == [taskData |-> taskData, storeValue |-> storeValue, tasks |-> tasks,
             persistedValue |-> persistedValue]

\* the array of records as JSON.stringify sees it
Records(r) == [i \in 1..Len(r.storeValue) |-> r.taskData[r.storeValue[i]]]

\* _store.save() of the task manager
SaveRecords(r) == [r EXCEPT !.persistedValue = Records(r)]

\* the places of the array that hold a record of the given service and task name
Places(r, service, name) ==
    {i \in 1..Len(r.storeValue) :
        /\ r.taskData[r.storeValue[i]].serviceId = service
        /\ r.taskData[r.storeValue[i]].taskName = name}

\* a _getTaskDataFromStore that looks for nothing and pushes
GetTaskDataFromStoreAlwaysPushes(r, task) ==
    [r EXCEPT !.taskData = Append(@, task),
              !.storeValue = Append(@, Len(r.taskData) + 1)]

\* _getTaskDataFromStore: the array with the record of the task in it
GetTaskDataFromStore(r, task) ==
    IF Places(r, task.serviceId, task.taskName) # {}
    THEN r
    ELSE [r EXCEPT !.taskData = Append(@, task),
                   !.storeValue = Append(@, Len(r.taskData) + 1)]

\* the object _getTaskDataFromStore returns: the first record found with the key
DataOf(r, service, name) ==
    r.storeValue[CHOOSE i \in Places(r, service, name) :
                    \A j \in Places(r, service, name) : i <= j]

RECURSIVE RegisterMethods(_, _, _)

\* the loop of TaskManager.register over the task methods of the service
RegisterMethods(r, service, methods) ==
    IF methods = <<>> THEN r
    ELSE LET name == Head(methods)
             r1 == GetTaskDataFromStore(r, NewTaskData(service, name))
             data == IF Places(r1, service, name) # {} THEN DataOf(r1, service, name)
                     ELSE Len(r1.taskData)
             r2 == IF r1.taskData[data].taskSchedule # MethodSchedule
                   THEN [r1 EXCEPT !.taskData[data].timeNextRun = 0,
                                   !.taskData[data].taskSchedule = MethodSchedule]
                   ELSE r1
         IN  RegisterMethods([r2 EXCEPT !.tasks = Append(@, [service |-> service,
                                                             name |-> name,
                                                             data |-> data])],
                             service, Tail(methods))

RECURSIVE StartCleanUp(_, _)

\* the first loop of TaskManager.start, left being the records still to visit
StartCleanUp(r, left) ==
    IF left = <<>> THEN r
    ELSE LET d == Head(left)
             hasTask == \E k \in 1..Len(r.tasks) :
                           /\ r.tasks[k].name = r.taskData[d].taskName
                           /\ r.tasks[k].service = r.taskData[d].serviceId
         IN  StartCleanUp(IF hasTask THEN r
                          ELSE SaveRecords([r EXCEPT !.storeValue =
                                                        SelectSeq(@, LAMBDA e : e # d)]),
                          Tail(left))

RECURSIVE StartLoop(_, _)

\* the second loop of TaskManager.start, left being the tasks still to visit
StartLoop(r, left) ==
    IF left = <<>> THEN r
    ELSE LET d == Head(left).data
             r1 == IF r.taskData[d].timeNextRun = 0
                   THEN [r EXCEPT !.taskData[d].timeNextRun = NextDate(MethodSchedule, now)]
                   ELSE r
         IN  StartLoop(IF r1.taskData[d].timeNextReattempt # 0 THEN r1
                       ELSE SaveRecords([r1 EXCEPT !.taskData[d].timeNextRun =
                                                        NextDate(MethodSchedule, now)]),
                       Tail(left))

\* the registry after the call
Becomes(r) ==
    /\ registryCalls < MaxRegistryCalls
    /\ registryCalls' = registryCalls + 1
    /\ taskData' = r.taskData
    /\ storeValue' = r.storeValue
    /\ tasks' = r.tasks
    /\ persistedValue' = r.persistedValue

\* TaskManager.register(service)
RegisterRecords(service) == Becomes(RegisterMethods(Registry, service, Methods(service)))

\* TaskManager.deregister(service)
DeregisterRecords(service) ==
    /\ \E k \in 1..Len(tasks) : tasks[k].service = service
    /\ Becomes([Registry EXCEPT !.tasks = SelectSeq(@, LAMBDA t : t.service # service)])

\* TaskManager.start()
StartRecords == Becomes(StartLoop(StartCleanUp(Registry, storeValue), tasks))

\* an invocation of task k ends as a success
RecordSuccess(k) ==
    LET d == tasks[k].data
    IN  Becomes(SaveRecords([Registry EXCEPT
                                !.taskData[d].timeLastRun = now,
                                !.taskData[d].timeNextRun = NextDate(MethodSchedule, now),
                                !.taskData[d].totalRuns = @ + 1,
                                !.taskData[d].numFailures = 0,
                                !.taskData[d].timeNextReattempt = 0]))

\* an invocation of task k, of a task allowed one reattempt, ends as a failure
RecordFailure(k) ==
    LET d == tasks[k].data
    IN  Becomes(SaveRecords(
            IF taskData[d].numFailures + 1 <= 1
            THEN [Registry EXCEPT !.taskData[d].numFailures = @ + 1,
                                  !.taskData[d].timeNextReattempt = now + Step]
            ELSE [Registry EXCEPT !.taskData[d].timeNextRun = NextDate(MethodSchedule, now),
                                  !.taskData[d].numFailures = 0,
                                  !.taskData[d].timeNextReattempt = 0]))

(***************************************************************************)
(* Specifications.                                                         *)
(***************************************************************************)
vars == <<storeVars, registryVars, cacheVars, promiseVars, eventVars, taskVars>>

Init == InitStore /\ InitRegistry /\ InitCache /\ InitPromises /\ InitEvents /\ InitTasks

\* the same, for a bot whose task is of no interest: one choice for the options of the
\* task and for the records an earlier process left
InitTasksFixed ==
    /\ Init
    /\ options = [schedule |-> "*/30 * * * * *", immediate |-> FALSE,
                  immediateWhenLate |-> FALSE, immediateFirstRun |-> FALSE,
                  timeout |-> 0, numReattempts |-> 1]
    /\ ~tm.inStore
    /\ tm.orphans = <<>>

\* one process, its file operations failing or not
NextStore ==
    \/ (\E v \in Values : Write(v)) /\ UNCHANGED <<defaults, registryVars, cacheVars, promiseVars, eventVars, taskVars>>
    \/ Save /\ UNCHANGED <<defaults, registryVars, cacheVars, promiseVars, eventVars, taskVars>>
    \/ (\E v \in Values : SetValue(v)) /\ UNCHANGED <<defaults, registryVars, cacheVars, promiseVars, eventVars, taskVars>>
    \/ (\E i \in 1..Len(writes) : WriteStep(i)) /\ UNCHANGED <<defaults, registryVars, cacheVars, promiseVars, eventVars, taskVars>>
    \/ (\E i \in 1..Len(writes) : WriteFail(i)) /\ UNCHANGED <<defaults, registryVars, cacheVars, promiseVars, eventVars, taskVars>>

SpecStore == InitTasksFixed /\ [][NextStore]_vars

\* processes that may die at any point and be started again, without I/O errors
NextStoreCrash ==
    \/ (\E v \in Values : Write(v)) /\ UNCHANGED <<defaults, registryVars, cacheVars, promiseVars, eventVars, taskVars>>
    \/ Save /\ UNCHANGED <<defaults, registryVars, cacheVars, promiseVars, eventVars, taskVars>>
    \/ (\E i \in 1..Len(writes) : WriteStep(i)) /\ UNCHANGED <<defaults, registryVars, cacheVars, promiseVars, eventVars, taskVars>>
    \/ Crash /\ UNCHANGED <<defaults, registryVars, cacheVars, promiseVars, eventVars, taskVars>>
    \/ Construct /\ UNCHANGED <<defaults, registryVars, cacheVars, promiseVars, eventVars, taskVars>>
    \/ CreateAsync /\ UNCHANGED <<defaults, registryVars, cacheVars, promiseVars, eventVars, taskVars>>
    \/ CreateAsyncStep /\ UNCHANGED <<defaults, registryVars, cacheVars, promiseVars, eventVars, taskVars>>
    \/ CreateAsyncLoad /\ UNCHANGED <<defaults, registryVars, cacheVars, promiseVars, eventVars, taskVars>>

SpecStoreCrash == InitTasksFixed /\ [][NextStoreCrash]_vars

\* the files a process may find when it starts: none, whole ones, and what a
\* write cut short leaves
FoundPrimary ==
    {Absent, File(<<>>), File(<<"[">>), File(Stringify(Num(12))), File(Stringify(Arr(<<1>>)))}

FoundJournal ==
    {Absent, File(<<>>), File(JournalText(Stringify(Num(12)))),
     File(JournalText(Stringify(Arr(<<1>>))))}

\* a process about to create its store, with or without a default
InitLoad ==
    /\ alive = FALSE
    /\ cache = Defaults
    /\ writePromiseSource = 0
    /\ pendingWritePromiseSource = 0
    /\ promises = <<>>
    /\ writes = <<>>
    /\ primaryFile \in FoundPrimary
    /\ journalFile \in FoundJournal
    /\ calls = 0
    /\ returned = <<>>
    /\ written = NoCall
    /\ started = 0
    /\ lastFinished = NoneFinished
    /\ sets = 0
    /\ crashes = 0
    /\ committed = Defaults
    /\ ioFailed = FALSE
    /\ setSinceSave = FALSE
    /\ lastLoad = NoLoad
    /\ defaults \in {Undefined, Defaults}
    /\ InitCache
    /\ InitRegistry
    /\ InitPromises
    /\ InitEvents
    /\ InitTasks
    /\ options = [schedule |-> "*/30 * * * * *", immediate |-> FALSE,
                  immediateWhenLate |-> FALSE, immediateFirstRun |-> FALSE,
                  timeout |-> 0, numReattempts |-> 1]
    /\ ~tm.inStore
    /\ tm.orphans = <<>>

\* the two ways of creating a store
NextLoad ==
    \/ Construct /\ UNCHANGED <<defaults, registryVars, cacheVars, promiseVars, eventVars, taskVars>>
    \/ CreateAsync /\ UNCHANGED <<defaults, registryVars, cacheVars, promiseVars, eventVars, taskVars>>
    \/ CreateAsyncStep /\ UNCHANGED <<defaults, registryVars, cacheVars, promiseVars, eventVars, taskVars>>
    \/ CreateAsyncLoad /\ UNCHANGED <<defaults, registryVars, cacheVars, promiseVars, eventVars, taskVars>>

SpecLoad == InitLoad /\ [][NextLoad]_vars

\* the callers of createStore and createStoreAsync, in any order
NextCache ==
    \/ CreateStore /\ UNCHANGED <<storeVars, registryVars, promiseVars, eventVars, taskVars>>
    \/ CreateStoreAsync /\ UNCHANGED <<storeVars, registryVars, promiseVars, eventVars, taskVars>>
    \/ (\E i \in 1..Len(lookups) : StoreLoaded(i))
           /\ UNCHANGED <<storeVars, registryVars, promiseVars, eventVars, taskVars>>

SpecCache == InitTasksFixed /\ [][NextCache]_vars

\* the callers of a completion source, and a timeout source with its timer, its
\* closure and the callers of cancel()
NextPromises ==
    \/ (\E value \in Results : CallSetResult(value))
           /\ UNCHANGED <<storeVars, registryVars, cacheVars, eventVars, taskVars>>
    \/ (\E err \in Errors : CallSetError(err))
           /\ UNCHANGED <<storeVars, registryVars, cacheVars, eventVars, taskVars>>
    \/ (\E outcome \in Outcomes : Execute(outcome))
           /\ UNCHANGED <<storeVars, registryVars, cacheVars, eventVars, taskVars>>
    \/ ClosureReturns /\ UNCHANGED <<storeVars, registryVars, cacheVars, eventVars, taskVars>>
    \/ ClosureRaises /\ UNCHANGED <<storeVars, registryVars, cacheVars, eventVars, taskVars>>
    \/ Cancel /\ UNCHANGED <<storeVars, registryVars, cacheVars, eventVars, taskVars>>

SpecPromises == InitTasksFixed /\ [][NextPromises]_vars

\* one process whose file operations each complete or fail in the end
SpecStoreFair ==
    InitTasksFixed /\ [][NextStore]_vars
         /\ WF_vars((\E i \in 1..Len(writes) : WriteStep(i)) /\ UNCHANGED <<defaults, registryVars, cacheVars, promiseVars, eventVars, taskVars>>)

\* the event manager of a bot that is started and stopped
NextEvents ==
    \/ BotStarting /\ UNCHANGED <<storeVars, registryVars, cacheVars, promiseVars, taskVars>>
    \/ BotOnline /\ UNCHANGED <<storeVars, registryVars, cacheVars, promiseVars, taskVars>>
    \/ BotStopping /\ UNCHANGED <<storeVars, registryVars, cacheVars, promiseVars, taskVars>>
    \/ BotOffline /\ UNCHANGED <<storeVars, registryVars, cacheVars, promiseVars, taskVars>>
    \/ (\E n \in EventNames, h \in Handlers : Register(n, h)) /\ UNCHANGED <<storeVars, registryVars, cacheVars, promiseVars, taskVars>>
    \/ (\E n \in EventNames, h \in Handlers : Deregister(n, h)) /\ UNCHANGED <<storeVars, registryVars, cacheVars, promiseVars, taskVars>>
    \/ (\E n \in EventNames : Clear(n)) /\ UNCHANGED <<storeVars, registryVars, cacheVars, promiseVars, taskVars>>
    \/ (\E n \in EventNames : Invoke(n)) /\ UNCHANGED <<storeVars, registryVars, cacheVars, promiseVars, taskVars>>
    \/ InvokeNonString /\ UNCHANGED <<storeVars, registryVars, cacheVars, promiseVars, taskVars>>
    \/ Flush /\ UNCHANGED <<storeVars, registryVars, cacheVars, promiseVars, taskVars>>
    \/ (\E i \in BagToSet(invocations) : \E h \in Handlers : HandlerResolves(i, h))
           /\ UNCHANGED <<storeVars, registryVars, cacheVars, promiseVars, taskVars>>
    \/ (\E i \in BagToSet(invocations) : \E h \in Handlers : HandlerRejects(i, h))
           /\ UNCHANGED <<storeVars, registryVars, cacheVars, promiseVars, taskVars>>

SpecEvents == InitTasksFixed /\ [][NextEvents]_vars

\* the task manager of a bot that is started once and may be stopped
NextTasks ==
    \/ (\E service \in Services : RegisterTasks(service))
           /\ UNCHANGED <<storeVars, registryVars, cacheVars, promiseVars, eventVars>>
    \/ StartTasks /\ UNCHANGED <<storeVars, registryVars, cacheVars, promiseVars, eventVars>>
    \/ (\E service \in Services : DeregisterTasks(service))
           /\ UNCHANGED <<storeVars, registryVars, cacheVars, promiseVars, eventVars>>
    \/ CronFire /\ UNCHANGED <<storeVars, registryVars, cacheVars, promiseVars, eventVars>>
    \/ (\E due \in BagToSet(tm.reattemptTimeouts) : ReattemptFires(due))
           /\ UNCHANGED <<storeVars, registryVars, cacheVars, promiseVars, eventVars>>
    \/ (\E i \in BagToSet(tm.invocations) : CallbackResolves(i))
           /\ UNCHANGED <<storeVars, registryVars, cacheVars, promiseVars, eventVars>>
    \/ (\E i \in BagToSet(tm.invocations) : CallbackRejects(i))
           /\ UNCHANGED <<storeVars, registryVars, cacheVars, promiseVars, eventVars>>
    \/ (\E i \in BagToSet(tm.invocations) : TimeoutFires(i))
           /\ UNCHANGED <<storeVars, registryVars, cacheVars, promiseVars, eventVars>>
    \/ BackgroundEnds /\ UNCHANGED <<storeVars, registryVars, cacheVars, promiseVars, eventVars>>
    \/ Tick /\ UNCHANGED <<storeVars, registryVars, cacheVars, promiseVars, eventVars>>

SpecTasks == Init /\ [][NextTasks]_vars

\* a task run at start() and allowed one reattempt, with and without a timeout, in a
\* process that finds an empty store
InitSlot ==
    /\ InitStore
    /\ InitCache
    /\ InitRegistry
    /\ InitPromises
    /\ InitEvents
    /\ now = Boot
    /\ options \in {o \in TaskOptionSets : o.numReattempts = 1 /\ o.immediate}
    /\ tasksStarted = FALSE
    /\ tm = NewManager([inStore |-> FALSE, data |-> NoData, orphans |-> <<>>])

\* the same task manager where time passes, every timer that is due fires, and the
\* callback of a task without a timeout settles in the end; the callback of a task
\* with a timeout may run for ever
SpecTasksFair ==
    /\ InitSlot /\ [][NextTasks]_vars
    /\ WF_vars((\/ Tick
                \/ CronFire
                \/ \E due \in BagToSet(tm.reattemptTimeouts) : ReattemptFires(due)
                \/ \E i \in BagToSet(tm.invocations) : TimeoutFires(i))
                  /\ UNCHANGED <<storeVars, registryVars, cacheVars, promiseVars, eventVars>>)
    /\ WF_vars(/\ options.timeout <= 0
               /\ \E i \in BagToSet(tm.invocations) :
                      CallbackResolves(i) \/ CallbackRejects(i)
               /\ UNCHANGED <<storeVars, registryVars, cacheVars, promiseVars, eventVars>>)

\* a task run at start() and allowed two reattempts, with and without a timeout, in
\* a process that finds an empty store
InitRetry ==
    /\ InitStore
    /\ InitCache
    /\ InitRegistry
    /\ InitPromises
    /\ InitEvents
    /\ now = Boot
    /\ options \in {o \in TaskOptionSets : o.numReattempts = 2 /\ o.immediate}
    /\ tasksStarted = FALSE
    /\ tm = NewManager([inStore |-> FALSE, data |-> NoData, orphans |-> <<>>])

\* the same task manager where time passes, every timer that is due fires and every
\* callback that is awaited settles
SpecRetryFair ==
    /\ InitRetry /\ [][NextTasks]_vars
    /\ WF_vars((\/ Tick
                \/ CronFire
                \/ \E due \in BagToSet(tm.reattemptTimeouts) : ReattemptFires(due)
                \/ \E i \in BagToSet(tm.invocations) : TimeoutFires(i))
                  /\ UNCHANGED <<storeVars, registryVars, cacheVars, promiseVars, eventVars>>)
    /\ WF_vars(/\ \E i \in BagToSet(tm.invocations) :
                      CallbackResolves(i) \/ CallbackRejects(i)
               /\ UNCHANGED <<storeVars, registryVars, cacheVars, promiseVars, eventVars>>)

\* a task allowed many reattempts, found waiting for one after any number of failures
InitBackoff ==
    /\ InitStore
    /\ InitCache
    /\ InitRegistry
    /\ InitPromises
    /\ InitEvents
    /\ now = Boot
    /\ \E timeout \in {0, 15000} :
         options = [schedule |-> "*/30 * * * * *", immediate |-> FALSE,
                    immediateWhenLate |-> FALSE, immediateFirstRun |-> FALSE,
                    timeout |-> timeout, numReattempts |-> MaxFailures + 1]
    /\ tasksStarted = FALSE
    /\ \E failures \in 1..MaxFailures :
         tm = NewManager([inStore |-> TRUE, orphans |-> <<>>,
                          data |-> [taskSchedule |-> "*/30 * * * * *",
                                    timeNextRun |-> 2 * Step, timeLastRun |-> Step,
                                    totalRuns |-> 1, numFailures |-> failures,
                                    timeNextReattempt |-> Boot + Step]])

\* the same task manager, of a task found after many failures
SpecBackoff == InitBackoff /\ [][NextTasks]_vars

\* a task manager that finds the records of an earlier process in its store
InitFound ==
    /\ InitStore
    /\ InitCache
    /\ InitPromises
    /\ InitEvents
    /\ now = Boot
    /\ options = [schedule |-> "*/30 * * * * *", immediate |-> FALSE,
                  immediateWhenLate |-> FALSE, immediateFirstRun |-> FALSE,
                  timeout |-> 0, numReattempts |-> 1]
    /\ tasksStarted = FALSE
    /\ tm = NewManager([inStore |-> FALSE, data |-> NoData, orphans |-> <<>>])
    /\ \E found \in FoundRecords :
          /\ taskData = found
          /\ storeValue = [i \in 1..Len(found) |-> i]
          /\ persistedValue = found
    /\ tasks = <<>>
    /\ registryCalls = 0

\* services started and stopped, the task manager started, invocations ending, in
\* any order
NextRegistry ==
    \/ (\E service \in Services : RegisterRecords(service))
           /\ UNCHANGED <<storeVars, cacheVars, promiseVars, eventVars, taskVars>>
    \/ (\E service \in Services : DeregisterRecords(service))
           /\ UNCHANGED <<storeVars, cacheVars, promiseVars, eventVars, taskVars>>
    \/ StartRecords /\ UNCHANGED <<storeVars, cacheVars, promiseVars, eventVars, taskVars>>
    \/ (\E k \in 1..Len(tasks) : RecordSuccess(k))
           /\ UNCHANGED <<storeVars, cacheVars, promiseVars, eventVars, taskVars>>
    \/ (\E k \in 1..Len(tasks) : RecordFailure(k))
           /\ UNCHANGED <<storeVars, cacheVars, promiseVars, eventVars, taskVars>>

SpecRegistry == InitFound /\ [][NextRegistry]_vars

Next ==
    NextStore \/ NextStoreCrash \/ NextLoad \/ NextCache \/ NextPromises \/ NextEvents
        \/ NextTasks \/ NextRegistry

Spec == Init /\ [][Next]_vars

(***************************************************************************)
(* Store: properties.                                                      *)
(***************************************************************************)
\* C3: when the process dies at any step of a save, the next load yields the value
\* last committed before the crash or a value that was being saved, never the
\* defaults or a partial value.
CrashAtomicity == lastLoad.afterCrash => lastLoad.value \in lastLoad.allowed

\* C4: when a load finds a journal that fails to parse, the primary file still
\* holds the text of the last committed write.
CorruptJournalMeansPrimaryIntact ==
    (lastLoad.afterCrash /\ lastLoad.journalCorrupt)
        => lastLoad.primaryFound = File(Stringify(lastLoad.committedBefore))

AllResolved ==
    /\ Len(returned) > 0
    /\ \A p \in 1..Len(promises) : promises[p] = "resolved"

\* C5: without I/O errors, once every promise returned by write()/save() has
\* resolved, the primary file is the serialization of the last value set and no
\* physical write is outstanding.
CoalescingCorrect ==
    (AllResolved /\ ~ioFailed /\ ~setSinceSave)
        => /\ primaryFile = File(Stringify(cache))
           /\ journalFile = Absent
           /\ writes = <<>>
           /\ writePromiseSource = 0
           /\ pendingWritePromiseSource = 0

\* three calls, the last two coalesced into one pending write, all resolved
CoalescingWitness ==
    /\ AllResolved /\ ~ioFailed /\ ~setSinceSave
    /\ Len(returned) >= 3
    /\ returned[2] = returned[3]
    /\ returned[1] # returned[2]
    /\ started = 2
    /\ primaryFile = File(Stringify(cache))
    /\ cache # Defaults

PendingPromises == {p \in 1..Len(promises) : promises[p] = "pending"}

OneWriteAtATime ==
    /\ Len(writes) <= 1
    /\ PendingPromises \subseteq {writePromiseSource, pendingWritePromiseSource}
    /\ (Len(writes) = 0 => writePromiseSource = 0 /\ pendingWritePromiseSource = 0)
    /\ (pendingWritePromiseSource # 0 => writePromiseSource # 0)

StartsWithCurrentValue ==
    started' # started
        => /\ Len(writes') = 1
           /\ writes'[1].pc = "openJournal"
           /\ writes'[1].data = Stringify(cache')

\* C6: at most one physical write is active and at most one write is pending; a
\* write starts only when no other is active, and serializes the cache as it is
\* when it starts.
WriteSerialization == []OneWriteAtATime /\ [][StartsWithCurrentValue]_vars

\* the pending write has started with a value set after the call that requested it
WriteSerializationWitness ==
    /\ lastFinished.startedNext
    /\ setSinceSave
    /\ Len(writes) = 1
    /\ writes[1].pc = "openJournal"
    /\ writes[1].value = cache
    /\ started = 2

\* C7: a promise returned by write()/save() is resolved only when a physical write
\* that started at or after that call has finished.
ResolvedOnlyAfterOwnWrite ==
    \A k \in 1..Len(returned) :
        promises[returned[k]] = "resolved" => lastFinished.sawCalls >= k

\* the first write has finished and the caller that arrived during it still waits
ResolvedOnlyAfterOwnWriteWitness ==
    /\ Len(returned) >= 2
    /\ lastFinished.any
    /\ promises[returned[1]] = "resolved"
    /\ promises[returned[2]] = "pending"
    /\ lastFinished.sawCalls = 1

FailedWriteStillResolves ==
    (lastFinished.any /\ lastFinished.failed)
        => /\ lastFinished.promise # 0
           /\ promises[lastFinished.promise] = "resolved"
           /\ writePromiseSource # lastFinished.promise
           /\ (lastFinished.startedNext => started >= 2)

EveryPromiseResolves ==
    \A p \in 1..(MaxCalls + 1) :
        (p <= Len(promises) /\ promises[p] = "pending")
            ~> (p <= Len(promises) /\ promises[p] = "resolved")

\* C8: a physical write that raises an I/O error still resolves its promise, clears
\* the in-flight marker and starts the pending write; every promise returned by
\* write()/save() is resolved in the end.
WriteFailureNonFatal == []FailedWriteStillResolves /\ EveryPromiseResolves

\* a write failed, its promise is resolved and the pending write was started
WriteFailureWitness ==
    /\ lastFinished.any
    /\ lastFinished.failed
    /\ lastFinished.startedNext
    /\ promises[lastFinished.promise] = "resolved"
    /\ Len(writes) = 1

(***************************************************************************)
(* EventManager: properties.                                               *)
(***************************************************************************)
\* C2: however many times flush() is called once the bot is ready, an event queued
\* before that is delivered to each registered handler at most once.
FlushDeliversOnce ==
    \A q \in 1..Len(queue) : \A h \in Handlers : queue[q].deliveries[h] <= 1

(***************************************************************************)
(* TaskManager: properties.                                                *)
(***************************************************************************)
\* the callbacks of the task that are running, awaited by _invokeTask or not
Executions == BagCardinality(tm.invocations) + tm.background

\* the step is the end of a call of _invokeTask of the given kind
InvokeTaskEnds(kind) ==
    /\ tm'.lastOutcome.n # tm.lastOutcome.n
    /\ tm'.lastOutcome.kind = kind

SkippedNotQueued ==
    InvokeTaskEnds("skipped") =>
        /\ tm'.invocations = tm.invocations
        /\ tm'.background = tm.background
        /\ tm'.running = tm.running
        /\ tm'.data = tm.data
        /\ tm'.reattemptTimeouts \sqsubseteq tm.reattemptTimeouts

RetryBudgetStep ==
    InvokeTaskEnds("failed") =>
        LET attemptNumber == tm'.lastOutcome.attempt
        IN  IF attemptNumber < options.numReattempts
            THEN /\ tm'.data.numFailures = attemptNumber + 1
                 /\ tm'.data.timeNextReattempt \in BagToSet(tm'.reattemptTimeouts)
                 /\ ~tm'.jobRunning
            ELSE /\ tm'.data.numFailures = 0
                 /\ tm'.data.timeNextReattempt = 0
                 /\ tm'.data.timeNextRun = NextDate(options.schedule, now)
                 /\ tm'.jobRunning

RetryBudget ==
    /\ [](tm.data.numFailures > 0 => ~tm.jobRunning)
    /\ [][RetryBudgetStep]_vars

\* C10: when an invocation that began with numFailures > 0 gets past its await without
\* an error, numFailures and timeNextReattempt are cleared, totalRuns grows by exactly
\* one, timeLastRun is the start of that invocation and the cron job runs again.
RetryRecoveryStep ==
    (InvokeTaskEnds("finished") /\ tm'.lastOutcome.attempt > 0) =>
        /\ tm'.data.numFailures = 0
        /\ tm'.data.timeNextReattempt = 0
        /\ tm'.data.totalRuns = tm.data.totalRuns + 1
        /\ tm'.data.timeLastRun = tm'.lastOutcome.startTime
        /\ tm'.jobRunning

RetryRecovery == [][RetryRecoveryStep]_vars

\* a reattempt went well after the cron job had been stopped for it
RetryRecoveryWitness ==
    /\ tm.lastOutcome.kind = "finished"
    /\ tm.lastOutcome.attempt > 0
    /\ tm.data.totalRuns > 0
    /\ tm.jobRunning

\* C11: whenever the record of the task has timeNextReattempt set, the cron job of the
\* task is stopped, also when the failed invocation was the immediate run of start().
RetryExclusive == tm.data.timeNextReattempt # 0 => ~tm.jobRunning

\* the step in which the timeout of an invocation fires: its callback runs on unawaited
TimeoutStep == tm'.background = tm.background + 1

\* the step in which a callback that outlived its timeout settles
BackgroundStep == tm'.background = tm.background - 1

\* C12: when the timeout fires before the callback settles, the callback keeps running,
\* the invocation ends without a failure (numFailures and timeNextReattempt are not set)
\* and arms no reattempt; what the callback does afterwards changes nothing.
TimeoutObservational ==
    /\ [][TimeoutStep =>
            /\ tm'.lastOutcome.kind = "finished"
            /\ tm'.data.numFailures = 0
            /\ tm'.data.timeNextReattempt = 0
            /\ tm'.reattemptTimeouts = tm.reattemptTimeouts
            /\ ~tm'.running]_vars
    /\ [][BackgroundStep => tm' = [tm EXCEPT !.background = @ - 1]]_vars

\* the timeout of an invocation has fired and its callback is still running
TimeoutObservationalWitness ==
    /\ tm.background > 0
    /\ tm.lastOutcome.kind = "finished"
    /\ tm.data.timeLastRun = tm.lastOutcome.startTime
    /\ tm.data.totalRuns > 0

\* C13: a call of _invokeTask for a task whose callback is still awaited starts no
\* second execution and leaves the record of the task, _running, the cron job, the
\* reattempt timers (but for the one that made the call) and the store as they were.
SkipIsNoOp ==
    [][InvokeTaskEnds("skipped") =>
         /\ [tm' EXCEPT !.lastOutcome = tm.lastOutcome, !.jobNext = tm.jobNext,
                        !.reattemptTimeouts = tm.reattemptTimeouts] = tm
         /\ tm'.reattemptTimeouts \sqsubseteq tm.reattemptTimeouts
         /\ tm'.jobNext \in {tm.jobNext, NextDate(options.schedule, now)}]_vars

\* a tick of the cron job was skipped and the callback it found running is still awaited
SkipIsNoOpWitness ==
    /\ tm.lastOutcome.kind = "skipped"
    /\ tm.running
    /\ tm.jobRunning
    /\ tm.jobNext > now

\* the step is a call of start() for a registered task whose record has a reattempt
\* pending
StartWithPendingRetry ==
    /\ ~tasksStarted
    /\ tasksStarted'
    /\ tm.registered = "yes"
    /\ tm.data.timeNextReattempt # 0

\* what start() does about the reattempt: a timer for the remaining delay, or the
\* reattempt at once when its time has passed; never an immediate run
PendingRetryScheduled ==
    /\ ~tm'.lastEvent.isImmediate
    /\ IF tm.data.timeNextReattempt > now
       THEN /\ tm'.reattemptTimeouts = SetToBag({tm.data.timeNextReattempt})
            /\ tm'.callbacks = tm.callbacks
            /\ tm'.invocations = EmptyBag
       ELSE /\ tm'.callbacks = tm.callbacks + 1
            /\ tm'.lastEvent.isReattempt
            /\ tm'.invocations # EmptyBag \/ tm'.lastOutcome.kind = "failed"

\* C14 as stated: for a task whose record has timeNextReattempt set, start() schedules
\* that reattempt (at once when its time has passed, else after the remaining delay),
\* makes no immediate run and leaves the cron job stopped.
PendingRetryAtStart ==
    [][StartWithPendingRetry => PendingRetryScheduled /\ ~tm'.jobRunning]_vars

\* C14, amended: the same, but the cron job may run after start() when the reattempt,
\* made at once, threw before its first await and was the last one allowed, so that
\* _invokeTask itself went back to the regular schedule.
PendingRetryAtStartUnlessExhausted ==
    [][StartWithPendingRetry =>
         /\ PendingRetryScheduled
         /\ tm'.jobRunning =>
                /\ tm.data.timeNextReattempt <= now
                /\ tm'.lastOutcome.kind = "failed"
                /\ tm'.lastOutcome.attempt >= options.numReattempts
                /\ tm'.data.timeNextReattempt = 0]_vars

\* start() found a reattempt that was overdue and made it at once; the callback is awaited
PendingRetryAtStartWitness ==
    /\ tasksStarted
    /\ tm.registered = "yes"
    /\ tm.lastOutcome.n = 0
    /\ tm.lastEvent.isReattempt
    /\ tm.invocations # EmptyBag
    /\ ~tm.jobRunning

\* the step is a call of start() for a registered task whose record has no reattempt
\* pending
StartWithoutPendingRetry ==
    /\ ~tasksStarted
    /\ tasksStarted'
    /\ tm.registered = "yes"
    /\ tm.data.timeNextReattempt = 0

\* the record says the task is late: a next run is recorded and it is not in the future
RecordedLate == tm.data.timeNextRun # 0 /\ tm.data.timeNextRun <= now

\* C15: for a registered task with no reattempt pending, start() calls the callback at
\* once if and only if (immediateWhenLate and the recorded timeNextRun is not 0 and not
\* in the future) or (immediateFirstRun and totalRuns = 0) or immediate; the TaskEvent
\* of that run says isImmediate, with isImmediateLate and isImmediateBoot as evaluated;
\* the cron job is started in both cases.
ImmediateRunDecision ==
    [][StartWithoutPendingRetry =>
         LET late == options.immediateWhenLate /\ RecordedLate
             firstRun == options.immediateFirstRun /\ tm.data.totalRuns = 0
             boot == options.immediate
         IN  /\ tm'.callbacks = IF late \/ firstRun \/ boot THEN tm.callbacks + 1
                                ELSE tm.callbacks
             /\ (late \/ firstRun \/ boot) =>
                    /\ tm'.lastEvent.isImmediate
                    /\ tm'.lastEvent.isImmediateLate = late
                    /\ tm'.lastEvent.isImmediateBoot = boot
                    /\ ~tm'.lastEvent.isReattempt
             /\ tm'.jobRunning
             /\ tm'.jobNext = NextDate(options.schedule, now)]_vars

\* start() made an immediate run because the task was late, and started the cron job
ImmediateRunDecisionWitness ==
    /\ tasksStarted
    /\ tm.lastEvent.isImmediateLate
    /\ ~tm.lastEvent.isImmediateBoot
    /\ ~tm.lastEvent.isFirstRun
    /\ tm.invocations # EmptyBag
    /\ tm.jobRunning

\* the step is a call of start()
StartStep == ~tasksStarted /\ tasksStarted'

\* C16: right after start(), the record array holds exactly the records that were there
\* before and are of a registered task: every record of no task is gone, the record of a
\* registered task is still the object the task works on, and the saved array agrees.
GarbageCollection ==
    [][StartStep =>
         /\ tm'.orphans = <<>>
         /\ tm'.inStore = (tm.inStore /\ tm.registered = "yes")
         /\ tm'.collected = tm.orphans \o (IF tm.inStore /\ tm.registered # "yes"
                                           THEN <<"task">> ELSE <<>>)
         /\ tm'.persisted.orphans = <<>>
         /\ tm'.persisted.inStore = tm'.inStore
         /\ tm'.inStore =>
                /\ tm'.data.taskSchedule = tm.data.taskSchedule
                /\ tm'.data.totalRuns = tm.data.totalRuns
                /\ tm'.data.timeLastRun = tm.data.timeLastRun]_vars

\* start() removed two records of tasks that exist no more and kept the one of the
\* registered task
GarbageCollectionWitness ==
    /\ tasksStarted
    /\ Len(tm.collected) = 2
    /\ tm.registered = "yes"
    /\ tm.inStore
    /\ tm.persisted.inStore

AllTasks == {"task"} \cup OtherTasks

\* whether the task of that name is in _tasks, in the state s of the manager
Registered(s, name) == IF name = "task" THEN s.registered ELSE s.others[name].registered

\* whether the cron job of the task of that name is started
JobRuns(s, name) == IF name = "task" THEN s.jobRunning ELSE s.others[name].jobRunning

\* the step is a call of deregister(service)
DeregisterStep(service) ==
    \E name \in AllTasks :
        /\ ServiceOf(name) = service
        /\ Registered(tm, name) = "yes"
        /\ Registered(tm', name) = "removed"

\* C17: deregister(service) stops the cron job of every task of that service and takes
\* it out of _tasks, leaves the tasks of other services in _tasks with their cron jobs
\* as they were, and leaves the record array, in memory and as saved, unchanged.
DeregisterFrame ==
    [][\A service \in Services :
         DeregisterStep(service) =>
             /\ \A name \in AllTasks :
                    IF ServiceOf(name) = service
                    THEN Registered(tm', name) # "yes" /\ ~JobRuns(tm', name)
                    ELSE /\ Registered(tm', name) = Registered(tm, name)
                         /\ JobRuns(tm', name) = JobRuns(tm, name)
             /\ tm'.data = tm.data
             /\ tm'.inStore = tm.inStore
             /\ tm'.orphans = tm.orphans
             /\ tm'.persisted = tm.persisted]_vars

\* the tasks of one service were deregistered while the task of the other service stays
\* registered with its cron job started, and the record of the removed task is kept
DeregisterFrameWitness ==
    /\ tm.registered = "removed"
    /\ tm.others["sibling"].registered = "removed"
    /\ tm.others["foreign"] = [registered |-> "yes", jobRunning |-> TRUE]
    /\ tm.inStore
    /\ tm.persisted.inStore

\* C18: once deregister has removed the task, its callback is not called again and its
\* cron job stays stopped, also when a reattempt was pending or an invocation was
\* awaited at that time.
StoppedStaysStopped ==
    /\ [](tm.registered = "removed" => ~tm.jobRunning)
    /\ [][tm.registered = "removed" => tm'.callbacks = tm.callbacks]_vars

\* the step is the call of register for the service of the task
RegisterStep == tm.registered = "never" /\ tm'.registered = "yes"

SyncLoad(primary, journal) ==
    LET restored == RestoreFromJournal(primary, journal)
        file == CreateDefaultFile(restored[1])
    IN  [primaryLeft |-> file, journalLeft |-> restored[2], value |-> LoadValue(file)]

\* C20: a load that finds a journal overwrites the primary file with the journal's
\* text and yields its value when that text parses, leaves the primary file as
\* it was and yields the primary's value when it does not, and removes the
\* journal either way; Store.createAsync leaves and loads what the constructor
\* would have with the same files.
JournalRecovery ==
    lastLoad.afterCrash =>
        LET found == lastLoad.journalFound
            parsed == ParseJsonData(found.content)
            before == ParseJsonData(lastLoad.primaryFound.content)
            sync == SyncLoad(lastLoad.primaryFound, found)
        IN  /\ (found.exists /\ parsed.success) =>
                  /\ lastLoad.primaryLeft = File(found.content)
                  /\ lastLoad.value = parsed.data
            /\ (found.exists /\ ~parsed.success /\ lastLoad.primaryFound.exists) =>
                  /\ lastLoad.primaryLeft = lastLoad.primaryFound
                  /\ before.success => lastLoad.value = before.data
            /\ lastLoad.journalLeft = Absent
            /\ lastLoad.async =>
                  /\ lastLoad.primaryLeft = sync.primaryLeft
                  /\ lastLoad.journalLeft = sync.journalLeft
                  /\ lastLoad.value = sync.value

\* Store.createAsync has recovered a value from a journal whose text parses and
\* differs from the primary file's
JournalRecoveryWitness ==
    /\ lastLoad.afterCrash
    /\ lastLoad.async
    /\ lastLoad.journalFound.exists
    /\ ParseJsonData(lastLoad.journalFound.content).success
    /\ lastLoad.journalFound.content # lastLoad.primaryFound.content
    /\ lastLoad.value # LoadValue(lastLoad.primaryFound)
    /\ journalFile = Absent

\* the last call of this process was write(V) and the promise it returned has
\* resolved, with no I/O error so far
LastWriteResolved ==
    /\ alive
    /\ Len(returned) > 0
    /\ written.op = "write"
    /\ promises[returned[Len(returned)]] = "resolved"
    /\ ~ioFailed

\* the store a constructor would build from the files now on disk
FreshStore == SyncLoad(primaryFile, journalFile)

\* C21 as stated: once write(V) has resolved without I/O error and no later
\* write or save was called, a fresh store on the same path holds V and no
\* journal file is on disk.
RoundTrip ==
    LastWriteResolved =>
        /\ FreshStore.value = written.value
        /\ journalFile = Absent
        /\ FreshStore.journalLeft = Absent

\* C21: the same, for a value that was not replaced through the value setter
\* after the call to write(V).
RoundTripUnlessSet ==
    (LastWriteResolved /\ ~setSinceSave) => 
        /\ FreshStore.value = written.value
        /\ journalFile = Absent
        /\ FreshStore.journalLeft = Absent

\* a write that waited for the one in flight has resolved, and a fresh store
\* would hold its value, which is neither the default nor the first write's
RoundTripWitness ==
    /\ LastWriteResolved
    /\ ~setSinceSave
    /\ Len(returned) >= 2
    /\ returned[Len(returned)] # returned[1]
    /\ lastFinished.sawCalls = Len(returned)
    /\ written.value # Defaults
    /\ FreshStore.value = written.value

\* the load found a journal and copied it over the primary file
RestoredFromJournal ==
    /\ lastLoad.journalFound.exists
    /\ ParseJsonData(lastLoad.journalFound.content).success

\* C22: a load that reads a primary file it cannot parse yields the default and
\* leaves that file as it found it; a load that finds no primary file (and no
\* journal to restore it from) creates it with the default when there is one
\* and creates nothing when there is none.
LoadCorruption ==
    (lastLoad.afterCrash /\ ~RestoredFromJournal) =>
        LET found == lastLoad.primaryFound IN
        /\ (found.exists /\ ~ParseJsonData(found.content).success) =>
              /\ lastLoad.value = defaults
              /\ lastLoad.primaryLeft = found
        /\ (~found.exists /\ defaults # Undefined) =>
              /\ lastLoad.primaryLeft = File(Stringify(defaults))
              /\ lastLoad.value = defaults
        /\ (~found.exists /\ defaults = Undefined) =>
              /\ lastLoad.primaryLeft = Absent
              /\ lastLoad.value = Undefined

\* a store with a default was created over a primary file cut short and a
\* journal cut short: it holds the default and the file is as it was
LoadCorruptionWitness ==
    /\ lastLoad.afterCrash
    /\ alive
    /\ defaults # Undefined
    /\ lastLoad.primaryFound = File(<<"[">>)
    /\ lastLoad.journalFound.exists
    /\ cache = defaults
    /\ primaryFile = File(<<"[">>)

\* C23: every call of createStore and createStoreAsync with the one name gets
\* the same Store instance, and no second instance is ever constructed.
StoreInstanceCaching ==
    /\ instances <= 1
    /\ \A i, j \in 1..Len(lookups) :
          (lookups[i].got # 0 /\ lookups[j].got # 0) => lookups[i].got = lookups[j].got

\* the step is a call of flush()
FlushStep == flushes' # flushes

\* the step ends a dispatch of queue entry q: the last handler awaited settles, or
\* flush has called the handlers and none is left to await
DispatchCompletes(q) ==
    \/ \E i \in BagToSet(invocations) :
          /\ i.q = q
          /\ Cardinality(i.waiting) = 1
          /\ CopiesIn(i, invocations') = CopiesIn(i, invocations) - 1
    \/ /\ FlushStep
       /\ Dispatching(status')
       /\ \A i \in BagToSet(invocations') :
             i.q = q => CopiesIn(i, invocations') = CopiesIn(i, invocations)

PreReadyQueueingStep ==
    /\ (invokes' # invokes /\ lastInvoke'.typeofEvent = "string" /\ ~Dispatching(status)) =>
          /\ Len(queue') = Len(queue) + 1
          /\ ~queue'[Len(queue')].resolved
          /\ \A h \in Handlers : queue'[Len(queue')].deliveries[h] = 0
          /\ invocations' = invocations
          /\ logged' = logged
    /\ \A q \in 1..Len(queue) :
          /\ queue'[q].deliveries # queue[q].deliveries =>
                /\ FlushStep
                /\ Dispatching(status')
                /\ queue'[q].deliveries = Called(queue[q].name, queue[q].deliveries)
          /\ (~queue[q].resolved /\ queue'[q].resolved) => DispatchCompletes(q)
          /\ (queue[q].resolved \/ DispatchCompletes(q)) => queue'[q].resolved

\* C24: an invoke() made while the bot is neither online nor stopping is queued:
\* no handler is called and its promise is unresolved; handlers are called for
\* it only by a flush() with the bot online or stopping, which calls the
\* handlers registered then; its promise is resolved exactly when such a
\* dispatch has completed, and stays resolved.
PreReadyQueueing == [][PreReadyQueueingStep]_vars

\* a queued event was dispatched to a handler by a flush and its promise has
\* resolved after the handlers settled
PreReadyQueueingWitness ==
    /\ Len(queue) > 0
    /\ queue[1].resolved
    /\ \E h \in Handlers : queue[1].deliveries[h] = 1
    /\ flushes = 1
    /\ invocations = EmptyBag

\* the step is an invoke() call of a caller that dispatches
DirectDispatch ==
    /\ invokes' # invokes
    /\ lastInvoke'.typeofEvent = "string"
    /\ Dispatching(status)

\* the step is a handler's promise rejecting, or a handler throwing in a dispatch
HandlerFails == logged' # logged

\* the dispatch of the last invoke() call of a caller is awaiting handlers
AwaitingHandlers == \E i \in BagToSet(invocations) : i.q = CallerId(invokes)

FailureIsolationStep ==
    /\ DirectDispatch =>
          /\ \A n \in EventNames : Range(lastCalled') = Range(handlers[n])
          /\ lastInvoke'.outcome \in {"dispatched", "resolved"}
    /\ (FlushStep /\ Dispatching(status')) =>
          \A q \in 1..Len(queue) :
             queue'[q].deliveries = Called(queue[q].name, queue[q].deliveries)
    /\ (HandlerFails /\ lastInvoke.typeofEvent = "string") =>
          lastInvoke'.outcome \in {"queued", "dispatched", "resolved"}
    /\ (HandlerFails /\ ~DirectDispatch /\ ~FlushStep) =>
          \E i \in BagToSet(invocations) : \E h \in i.waiting :
             /\ invocations' (+) SetToBag({i}) =
                   IF i.waiting = {h} THEN invocations
                   ELSE invocations (+) SetToBag({[i EXCEPT !.waiting = @ \ {h}]})
             /\ (i.waiting = {h} /\ i.q = CallerId(invokes)) => lastInvoke'.outcome = "resolved"
             /\ (i.waiting = {h} /\ i.q > 0) => queue'[i.q].resolved

\* C25: in a dispatch every registered handler is called, whichever of them
\* throw; a handler that throws or whose promise rejects is logged and counts
\* as settled, the other handlers stay awaited, and the promise of invoke() is
\* pending while handlers are awaited and resolved afterwards, never rejected.
FailureIsolation ==
    /\ [][FailureIsolationStep]_vars
    /\ [](lastInvoke.typeofEvent = "string" =>
             /\ lastInvoke.outcome # "rejected"
             /\ lastInvoke.outcome = "dispatched" <=> AwaitingHandlers)

\* the handler registered first has failed, the one registered after it was
\* called all the same, and the promise of invoke() has resolved
FailureIsolationWitness ==
    /\ Len(lastCalled) = 2
    /\ lastCalled[1] \in Faulty
    /\ logged > 0
    /\ lastInvoke.outcome = "resolved"
    /\ flushes = 1

\* the dispatch i is no longer awaited after the step
Leaves(i) == CopiesIn(i, invocations') < CopiesIn(i, invocations)

DispatchOrderingStep ==
    /\ DirectDispatch =>
          /\ \A n \in EventNames : lastCalled' = handlers[n]
          /\ lastInvoke'.outcome = "resolved" <=> ~AwaitingHandlers'
    /\ \A i \in BagToSet(invocations) :
          Leaves(i) =>
             \/ Cardinality(i.waiting) = 1
             \/ \E h \in i.waiting :
                   /\ CopiesIn([i EXCEPT !.waiting = @ \ {h}], invocations') >
                         CopiesIn([i EXCEPT !.waiting = @ \ {h}], invocations)
                   /\ lastInvoke' = lastInvoke
                   /\ queue' = queue
    /\ (invokes' = invokes /\ lastInvoke.outcome = "dispatched"
                           /\ lastInvoke'.outcome = "resolved") =>
          \E i \in BagToSet(invocations) :
             i.q = CallerId(invokes) /\ Cardinality(i.waiting) = 1 /\ Leaves(i)

\* C26: a dispatch calls the handlers in the order of their registration, and
\* its promise resolves only in the step in which the last of the handlers it
\* awaits settles; while any of them is pending the promise is pending.
DispatchOrdering ==
    /\ [][DispatchOrderingStep]_vars
    /\ [](lastInvoke.outcome = "resolved" => ~AwaitingHandlers)

\* two handlers were called in the order of their registration, h2 before h1,
\* both were awaited, and the promise of invoke() has resolved after both settled
DispatchOrderingWitness ==
    /\ lastCalled = <<"h2", "h1">>
    /\ logged = 0
    /\ lastInvoke.outcome = "resolved"
    /\ invocations = EmptyBag

\* C27: an invoke() call whose event name is not a string throws: it returns no
\* promise, and it has called no handler.
NonStringThrows ==
    lastInvoke.typeofEvent = "number" =>
        /\ lastInvoke.outcome = "threw"
        /\ lastCalled = <<>>

\* the delay of the policy as the claim states it
BackoffDelay(n) ==
    IF n <= 3 THEN 15000
    ELSE IF n <= 7 THEN 30000
    ELSE IF n <= 15 THEN 45000
    ELSE 60000

\* the step records a failure that will be retried
FailureRecorded ==
    /\ tm'.data.numFailures > 0
    /\ tm'.data.numFailures # tm.data.numFailures

\* the delay _getNextAttemptTime gives after n failures
DelayAfter(n) == GetNextAttemptTime([data |-> [numFailures |-> n]]) - now

\* C28: when a failure is recorded, the retry is set, and its timer armed, for
\* the time now plus 15000 ms when the failures recorded number 3 or fewer,
\* 30000 ms for 4 to 7, 45000 ms for 8 to 15 and 60000 ms beyond; the delay
\* never decreases as the number grows.
BackoffPolicy ==
    /\ [][FailureRecorded =>
            /\ tm'.data.timeNextReattempt = now + BackoffDelay(tm'.data.numFailures)
            /\ BagIn(now + BackoffDelay(tm'.data.numFailures), tm'.reattemptTimeouts)]_vars
    /\ [](\A a, b \in 0..(MaxFailures + 2) : a <= b => DelayAfter(a) <= DelayAfter(b))

\* a sixteenth failure in a row was recorded and the retry is a minute away
BackoffPolicyWitness ==
    /\ tm.data.numFailures = 16
    /\ tm.data.timeNextReattempt = now + 60000
    /\ tm.lastOutcome.kind = "failed"
    /\ tm.reattemptTimeouts # EmptyBag

\* the flags of the completion source s say one thing, and the promise says the same
SettledOneWay(s) ==
    /\ s.isFinished <=> (s.isResolved # s.isRejected)
    /\ ~(s.isResolved /\ s.isRejected)
    /\ s.promise.state = "pending" <=> ~s.isFinished
    /\ s.promise.state = "resolved" <=> s.isResolved
    /\ s.promise.state = "rejected" <=> s.isRejected

\* C29: the first setResult or setError settles a completion source, as resolved
\* or as rejected and never both, and every later call leaves it as it is.
SingleAssignment ==
    /\ [](SettledOneWay(completionSource) /\ SettledOneWay(timeoutSource.source))
    /\ [][/\ completionSource.isFinished => completionSource' = completionSource
          /\ timeoutSource.source.isFinished =>
                timeoutSource'.source = timeoutSource.source
          /\ settles' # settles => completionSource'.isFinished]_vars

\* three calls were made on a completion source and it is rejected: the calls
\* after the first were ignored
SingleAssignmentWitness ==
    /\ settles = 3
    /\ completionSource.promise = Rejected("e")
    /\ completionSource.isRejected
    /\ ~completionSource.isResolved

\* C30: the closure of a timeout source is called at most once and never after a
\* cancel() call; a cancel() that finds the timer armed resolves the promise
\* with false, a closure that has returned leaves it resolved with true, and a
\* closure that has raised leaves it rejected.
TimeoutClosureGuarantee ==
    /\ [](timeoutSource.runs <= 1)
    /\ [][timeoutSource'.runs > timeoutSource.runs => timeoutSource.cancels = 0]_vars
    /\ [](timeoutSource.timer = "cleared" =>
             /\ timeoutSource.source.promise = Fulfilled("false")
             /\ timeoutSource.runs = 0)
    /\ [](timeoutSource.closure = "returned" =>
             timeoutSource.source.promise = Fulfilled("true"))
    /\ [](timeoutSource.closure = "raised" =>
             timeoutSource.source.promise = Rejected("e"))

\* PromiseTimeoutSource.isFinished (getter)
IsFinished(t) == t.isFinished

\* PromiseTimeoutSource.isPending (getter)
IsPending(t) == ~t.isFinished

\* the timer of the timeout source t has expired and _execute has called the closure
ClosureStarted(t) == t.runs > 0

\* C31: cancel() acts only while the timer is armed: once the timer has expired
\* and the closure was called, running or ended, a cancel() call changes
\* nothing, the source is never marked cancelled and its promise is never
\* resolved with false.
CancelOnlyFromPending ==
    /\ [](ClosureStarted(timeoutSource) =>
             /\ ~timeoutSource.isCancelled
             /\ timeoutSource.source.promise # Fulfilled("false"))
    /\ [][(ClosureStarted(timeoutSource) /\ timeoutSource'.cancels # timeoutSource.cancels)
             => /\ timeoutSource'.isCancelled = timeoutSource.isCancelled
                /\ timeoutSource'.source = timeoutSource.source]_vars

\* C32: isFinished is true exactly when the timeout has executed or was
\* cancelled, and isPending is true exactly while it still awaits its
\* invocation.
StatusFlags ==
    /\ IsFinished(timeoutSource) <=>
          (ClosureStarted(timeoutSource) \/ timeoutSource.isCancelled)
    /\ IsPending(timeoutSource) <=>
          (timeoutSource.timer = "armed" /\ ~timeoutSource.isCancelled)

\* the records of _store.value as the task manager holds them now
StoreValue(s) ==
    [inStore |-> s.inStore, data |-> IF s.inStore THEN s.data ELSE NoData,
     orphans |-> s.orphans]

\* the step ends a call of _invokeTask that had called the callback: the task is
\* out of _running and the store was saved as it is
ReleaseStep ==
    (InvokeTaskEnds("finished") \/ InvokeTaskEnds("failed")) =>
        /\ ~tm'.running
        /\ tm'.persisted = StoreValue(tm')

\* the timeout of every awaited invocation fires within the time of the model,
\* and the callback it leaves behind is within the number the model counts
TimeoutInReach ==
    /\ tm.background < MaxBackground
    /\ \A i \in BagToSet(tm.invocations) : i.timeout > 0 /\ i.timeout <= MaxTime

\* C33: every invocation that enters _running leaves it again and saves the store,
\* whether it ends as a success, as a failure with a reattempt armed or as a
\* failure with the reattempts exhausted, provided the callback settles or the
\* task has a timeout; with a timeout a callback that never settles does not keep
\* the task in _running.
SlotRelease ==
    /\ [][ReleaseStep]_vars
    /\ (tm.running /\ (options.timeout <= 0 \/ TimeoutInReach)) ~> ~tm.running

\* the timeout of an invocation has fired: the task is out of _running while its
\* callback still runs, and the store was saved
SlotReleaseWitness ==
    /\ tm.lastOutcome.kind = "finished"
    /\ tm.background = 1
    /\ ~tm.running
    /\ tm.callbacks = 1
    /\ tm.persisted = StoreValue(tm)

\* the record of the task waits for a reattempt
InBackoff(s) == s.data.timeNextReattempt # 0

\* the failure bookkeeping of the record is cleared and the cron job runs
Resumed(s) ==
    /\ s.data.numFailures = 0
    /\ s.data.timeNextReattempt = 0
    /\ s.jobRunning

\* a failure of a task in backoff records one failure more, within numReattempts,
\* and leaves a reattempt timer, or clears the bookkeeping and starts the cron job
RetrySequenceStep ==
    (InvokeTaskEnds("failed") /\ InBackoff(tm)) =>
        \/ /\ tm'.data.numFailures = tm.data.numFailures + 1
           /\ tm'.data.numFailures <= options.numReattempts
           /\ InBackoff(tm')
           /\ tm'.reattemptTimeouts # EmptyBag
        \/ Resumed(tm')

\* a reattempt timer is set for a time the model does not reach
BeyondMaxTime == \E due \in BagToSet(tm.reattemptTimeouts) : due > MaxTime

\* C34: a registered task whose record waits for a reattempt comes back, after at
\* most numReattempts further attempts that each settle, to a record without
\* numFailures and timeNextReattempt and a running cron job; at no time is it
\* left with the cron job stopped, no reattempt timer and no attempt under way.
RetryTermination ==
    /\ [][RetrySequenceStep]_vars
    /\ [](tm.data.numFailures <= options.numReattempts)
    /\ []((tasksStarted /\ tm.registered = "yes" /\ ~tm.jobRunning) =>
             (tm.reattemptTimeouts # EmptyBag \/ tm.running))
    /\ (tasksStarted /\ tm.registered = "yes" /\ InBackoff(tm))
           ~> (Resumed(tm) \/ BeyondMaxTime)

\* the second reattempt of a task has failed: its record is cleared and its cron
\* job runs again
RetryTerminationWitness ==
    /\ tm.lastOutcome.kind = "failed"
    /\ tm.lastOutcome.attempt = 2
    /\ options.numReattempts = 2
    /\ tm.registered = "yes"
    /\ Resumed(tm)
    /\ tm.reattemptTimeouts = EmptyBag

\* the step calls the callback of the task
CallbackCalled == tm'.callbacks = tm.callbacks + 1

\* C35: a reattempt is given the currentInvokeTime of the attempt before it, and so
\* of the first attempt of its sequence, also when that was an immediate run of
\* start(); a late immediate run is given the time of the run it missed.
OriginalInvokeTime ==
    /\ (CallbackCalled /\ tm'.lastEvent.isReattempt /\ tm.lastEvent.given) =>
           tm'.lastEvent.currentInvokeTime = tm.lastEvent.currentInvokeTime
    /\ (CallbackCalled /\ tm'.lastEvent.isImmediateLate) =>
           tm'.lastEvent.currentInvokeTime = tm.data.timeNextRun

\* C35 as a property of every step
OriginalInvokeTimeKept == [][OriginalInvokeTime]_vars

\* the calls of write() and save() made while the physical write now in flight was
\* in flight, by their place in the sequence of calls
ArrivedInFlight ==
    IF Len(writes) = 0 THEN {}
    ELSE {k \in 1..Len(returned) : k > writes[1].sawCalls}

\* every call that arrived during the write in flight was given the one pending promise
SharedPending ==
    /\ \A k \in ArrivedInFlight : returned[k] = pendingWritePromiseSource
    /\ (ArrivedInFlight # {}) <=> (pendingWritePromiseSource # 0)

\* a call that finds a write in flight starts no physical write
CallInFlightStep ==
    (calls' = calls + 1 /\ writePromiseSource # 0) => started' = started

\* the end of a physical write starts one physical write if calls arrived meanwhile,
\* whatever their number, and none otherwise
HandOverStep ==
    lastFinished' # lastFinished =>
        /\ started' = started + (IF ArrivedInFlight # {} THEN 1 ELSE 0)
        /\ writePromiseSource' = pendingWritePromiseSource
        /\ pendingWritePromiseSource' = 0

\* C36: the calls of write()/save() made while one physical write is in flight, one
\* or many, are all given the same pending promise and cause exactly one further
\* physical write when the write in flight ends; calls made back to back, before
\* any write has ended, cause two physical writes at most.
CoalescingCount ==
    /\ []SharedPending
    /\ [][CallInFlightStep]_vars
    /\ [][HandOverStep]_vars
    /\ [](started <= Len(promises))
    /\ [](~lastFinished.any => (started <= 1 /\ Len(promises) <= 2))

\* two calls arrived during the first physical write and were given one promise;
\* the write has ended and the second physical write, the last, is in flight
CoalescingCountWitness ==
    /\ Len(returned) = 3
    /\ returned[2] = returned[3]
    /\ returned[1] # returned[2]
    /\ lastFinished.any
    /\ lastFinished.startedNext
    /\ started = 2
    /\ Len(writes) = 1
    /\ writes[1].sawCalls = 3
    /\ pendingWritePromiseSource = 0

\* C37: the creation of the primary file from the default value and every save
\* follow one protocol: the journal gets the JSON text without its last
\* character, then the primary file gets the whole text, then the journal is
\* deleted.
AtomicWriteProtocol ==
    /\ lastLoad.pc = "defaultFile" =>
           journalFile = File(JournalText(Stringify(defaults)))
    /\ lastLoad.pc = "defaultUnlink" =>
           /\ journalFile = File(JournalText(Stringify(defaults)))
           /\ primaryFile = File(PrimaryText(Stringify(defaults)))
    /\ \A i \in 1..Len(writes) :
           /\ writes[i].pc \in {"journalClose", "fileWrite"} =>
                  journalFile = File(JournalText(writes[i].data))
           /\ writes[i].pc \in {"fileClose", "unlink"} =>
                  /\ journalFile = File(JournalText(writes[i].data))
                  /\ primaryFile = File(PrimaryText(writes[i].data))

\* C38: the journal text of a save, the JSON text without its last character,
\* never parses, whatever value is saved, so that no load after a crash takes a
\* journal for a complete write and adopts its value.
JournalNeverValid ==
    /\ \A i \in 1..Len(writes) : ~ParseJsonData(JournalText(writes[i].data)).success
    /\ lastLoad.afterCrash =>
           /\ ~RestoredFromJournal
           /\ lastLoad.value \in {lastLoad.committedBefore} \cup Values \cup {Defaults}

\* no two records of the array have the same serviceId and taskName
UniqueKeys(records) ==
    \A i, j \in 1..Len(records) :
        (/\ records[i].serviceId = records[j].serviceId
         /\ records[i].taskName = records[j].taskName) => i = j

\* the step is a call of register(): it has added tasks to _tasks
RegisterRecordsStep == Len(tasks') > Len(tasks)

\* the tasks a call of register() has added
Added == SubSeq(tasks', Len(tasks) + 1, Len(tasks'))

\* register() gives a task the record the array held for its key, with its counts
\* and retry fields as they were, and appends one new record for a key the array
\* did not hold
ReuseOrAppend ==
    RegisterRecordsStep =>
        /\ SubSeq(storeValue', 1, Len(storeValue)) = storeValue
        /\ Len(storeValue') = Len(storeValue)
              + Cardinality({k \in 1..Len(Added) :
                                Places(Registry, Added[k].service, Added[k].name) = {}})
        /\ \A k \in 1..Len(Added) :
              LET t == Added[k]
              IN  IF Places(Registry, t.service, t.name) # {}
                  THEN /\ t.data = DataOf(Registry, t.service, t.name)
                       /\ taskData'[t.data].totalRuns = taskData[t.data].totalRuns
                       /\ taskData'[t.data].timeLastRun = taskData[t.data].timeLastRun
                       /\ taskData'[t.data].numFailures = taskData[t.data].numFailures
                       /\ taskData'[t.data].timeNextReattempt =
                              taskData[t.data].timeNextReattempt
                  ELSE /\ t.data > Len(taskData)
                       /\ taskData'[t.data] = NewTaskData(t.service, t.name)
                       /\ \E i \in (Len(storeValue) + 1)..Len(storeValue') :
                              storeValue'[i] = t.data

\* C39: whatever the sequence of register, deregister, start and invocations, the
\* array of records, in memory and as saved, holds at most one record for a
\* serviceId and taskName; register() takes the record the array holds for the
\* key, with its totalRuns, timeLastRun and retry fields, and appends a new
\* record only when the array holds none.
RecordKeyUniqueness ==
    /\ [](UniqueKeys(Records(Registry)) /\ UniqueKeys(persistedValue))
    /\ [][ReuseOrAppend]_vars

\* a service was registered, stopped and registered again: its two Task objects
\* of the task the store knew hold the one record the store had, with its counts
RecordKeyUniquenessWitness ==
    /\ Len(tasks) = 2
    /\ tasks[1].service = "alpha" /\ tasks[2].service = "alpha"
    /\ tasks[1].name = "task" /\ tasks[2].name = "sibling"
    /\ registryCalls >= 3
    /\ tasks[1].data = 1
    /\ taskData[1].totalRuns = 1
    /\ taskData[1].numFailures = 1
    /\ Len(storeValue) = 2
    /\ Len(taskData) = 2

\* the step changes the run count or the time of the last run of the record
RunsChanged ==
    \/ tm'.data.totalRuns # tm.data.totalRuns
    \/ tm'.data.timeLastRun # tm.data.timeLastRun

\* C40: between the completions of invocations the record of the task has
\* numFailures set exactly when timeNextReattempt is set, and then from 1 to
\* numReattempts; totalRuns and timeLastRun change only in the step in which an
\* invocation completes as a success, totalRuns by one.
RetryBookkeeping ==
    /\ [](tm.data.numFailures > 0 <=> tm.data.timeNextReattempt # 0)
    /\ [](tm.data.numFailures \in 0..options.numReattempts)
    /\ [][RunsChanged =>
             /\ InvokeTaskEnds("finished")
             /\ tm'.data.totalRuns = tm.data.totalRuns + 1
             /\ tm'.data.timeLastRun = tm'.lastOutcome.startTime]_vars

\* the first reattempt of a task allowed two has failed: the record counts two
\* failures and waits for the second reattempt, its run count as it was
RetryBookkeepingWitness ==
    /\ options.numReattempts = 2
    /\ tm.lastOutcome.kind = "failed"
    /\ tm.lastOutcome.attempt = 1
    /\ tm.data.numFailures = 2
    /\ tm.data.timeNextReattempt > now
    /\ tm.data.totalRuns = 0
    /\ tm.data.timeLastRun = 0

=============================================================================
